---- MODULE Spec2Model ----
(***************************************************************************)
(* The Hack assembler (src/06_assembler/assembler.py) and the two VM       *)
(* translators (src/07_VMtranslator_1, src/08_VMtranslator_2).             *)
(* Text is modelled as a sequence of one-character strings, so that        *)
(* splitting, stripping, formatting and parsing are computed, not assumed. *)
(***************************************************************************)
EXTENDS Integers, Sequences, FiniteSets, TLC

(* ------------------------------------------------------------------ *)
(* Bounds of the model                                                *)
(* ------------------------------------------------------------------ *)
\* longest assembly program drawn in InitAsm (number of source lines)
MaxLines == 3

\* most VM commands one translator run advances over
MaxCmds == 3

\* most VM commands of a memory-access run
MaxMemCmds == 3

\* highest address of the data memory the machine model holds
RamTop == 290

\* most arguments and most local variables of the called function
MaxArgs == 2

MaxLocals == 2

\* most instructions the machine executes for one VM command
MaxSteps == 80

(* ------------------------------------------------------------------ *)
(* Text helpers (Python str semantics)                                *)
(* ------------------------------------------------------------------ *)
\* characters str.strip() removes and str.isspace() accepts
WS == {" ", "\t"}

Digits == <<"0","1","2","3","4","5","6","7","8","9">>

DigitChars == {Digits[i] : i \in 1..Len(Digits)}

\* value of one decimal digit character
DigitVal(c) == (CHOOSE i \in 1..Len(Digits) : Digits[i] = c) - 1

\* str(n) for n >= 0, as f"{n}" formats it
RECURSIVE Str(_)
Str(n) == IF n < 10 THEN <<Digits[n + 1]>> ELSE Str(n \div 10) \o <<Digits[(n % 10) + 1]>>

\* str.isdigit(): nonempty and every character a digit
isdigit(s) == Len(s) > 0 /\ \A i \in 1..Len(s) : s[i] \in DigitChars

\* int(s) for an all-digit s
RECURSIVE int(_)
int(s) == IF Len(s) = 0 THEN 0 ELSE 10 * int(SubSeq(s, 1, Len(s) - 1)) + DigitVal(s[Len(s)])

\* str.strip()
strip(s) ==
    LET keep == {i \in 1..Len(s) : s[i] \notin WS}
    IN  IF keep = {} THEN <<>>
        ELSE SubSeq(s, CHOOSE i \in keep : \A j \in keep : i <= j,
                       CHOOSE i \in keep : \A j \in keep : i >= j)

\* positions where the substring sep starts in s
Occurrences(s, sep) ==
    {i \in 1..(Len(s) - Len(sep) + 1) : SubSeq(s, i, i + Len(sep) - 1) = sep}

\* `sep in s`
Contains(s, sep) == Occurrences(s, sep) # {}

FirstOcc(s, sep) == CHOOSE i \in Occurrences(s, sep) : \A j \in Occurrences(s, sep) : i <= j

\* s.split(sep, 1) when sep occurs in s: the text before and after the first sep
SplitOnce(s, sep) ==
    <<SubSeq(s, 1, FirstOcc(s, sep) - 1), SubSeq(s, FirstOcc(s, sep) + Len(sep), Len(s))>>

(* ------------------------------------------------------------------ *)
(* assembler.py: code tables                                          *)
(* ------------------------------------------------------------------ *)
\* Python's None; `x.strip() or None` maps the empty string to it
\* the unsigned number a string of binary digits denotes (most significant first)
RECURSIVE BinValue(_)
BinValue(w) ==
    IF Len(w) = 0 THEN 0
    ELSE 2 * BinValue(SubSeq(w, 1, Len(w) - 1)) + (IF w[Len(w)] = "1" THEN 1 ELSE 0)

None == <<>>

DEST_TABLE ==
     None :> <<"0","0","0">> @@
     <<"M">> :> <<"0","0","1">> @@
     <<"D">> :> <<"0","1","0">> @@
     <<"M","D">> :> <<"0","1","1">> @@
     <<"A">> :> <<"1","0","0">> @@
     <<"A","M">> :> <<"1","0","1">> @@
     <<"A","D">> :> <<"1","1","0">> @@
     <<"A","M","D">> :> <<"1","1","1">>

JUMP_TABLE ==
     None :> <<"0","0","0">> @@
     <<"J","G","T">> :> <<"0","0","1">> @@
     <<"J","E","Q">> :> <<"0","1","0">> @@
     <<"J","G","E">> :> <<"0","1","1">> @@
     <<"J","L","T">> :> <<"1","0","0">> @@
     <<"J","N","E">> :> <<"1","0","1">> @@
     <<"J","L","E">> :> <<"1","1","0">> @@
     <<"J","M","P">> :> <<"1","1","1">>

COMP_TABLE ==
     <<"0">> :> <<"0","1","0","1","0","1","0">> @@
     <<"1">> :> <<"0","1","1","1","1","1","1">> @@
     <<"-","1">> :> <<"0","1","1","1","0","1","0">> @@
     <<"D">> :> <<"0","0","0","1","1","0","0">> @@
     <<"A">> :> <<"0","1","1","0","0","0","0">> @@
     <<"!","D">> :> <<"0","0","0","1","1","0","1">> @@
     <<"!","A">> :> <<"0","1","1","0","0","0","1">> @@
     <<"-","D">> :> <<"0","0","0","1","1","1","1">> @@
     <<"-","A">> :> <<"0","1","1","0","0","1","1">> @@
     <<"D","+","1">> :> <<"0","0","1","1","1","1","1">> @@
     <<"A","+","1">> :> <<"0","1","1","0","1","1","1">> @@
     <<"D","-","1">> :> <<"0","0","0","1","1","1","0">> @@
     <<"A","-","1">> :> <<"0","1","1","0","0","1","0">> @@
     <<"D","+","A">> :> <<"0","0","0","0","0","1","0">> @@
     <<"D","-","A">> :> <<"0","0","1","0","0","1","1">> @@
     <<"A","-","D">> :> <<"0","0","0","0","1","1","1">> @@
     <<"D","&","A">> :> <<"0","0","0","0","0","0","0">> @@
     <<"D","|","A">> :> <<"0","0","1","0","1","0","1">> @@
     <<"M">> :> <<"1","1","1","0","0","0","0">> @@
     <<"!","M">> :> <<"1","1","1","0","0","0","1">> @@
     <<"-","M">> :> <<"1","1","1","0","0","1","1">> @@
     <<"M","+","1">> :> <<"1","1","1","0","1","1","1">> @@
     <<"M","-","1">> :> <<"1","1","1","0","0","1","0">> @@
     <<"D","+","M">> :> <<"1","0","0","0","0","1","0">> @@
     <<"D","-","M">> :> <<"1","0","1","0","0","1","1">> @@
     <<"M","-","D">> :> <<"1","0","0","0","1","1","1">> @@
     <<"D","&","M">> :> <<"1","0","0","0","0","0","0">> @@
     <<"D","|","M">> :> <<"1","0","1","0","1","0","1">>

SP == <<"S","P">>

LCL == <<"L","C","L">>

ARG == <<"A","R","G">>

THIS == <<"T","H","I","S">>

THAT == <<"T","H","A","T">>

SCREEN == <<"S","C","R","E","E","N">>

KBD == <<"K","B","D">>

RNames == {<<"R">> \o Str(i) : i \in 0..15}

PREDEFINED ==
    [n \in RNames |-> int(Tail(n))] @@
    (SP :> 0) @@ (LCL :> 1) @@ (ARG :> 2) @@ (THIS :> 3) @@ (THAT :> 4) @@
    (SCREEN :> 16384) @@ (KBD :> 24576)

(* ------------------------------------------------------------------ *)
(* assembler.py: errors                                               *)
(* ------------------------------------------------------------------ *)
\* An AsmError, by what its message carries: the "[line N]" prefix and the raw
\* source text appear only where the f-string puts them.
NoError == [kind |-> "none", has_line |-> FALSE, line_no |-> 0, has_raw |-> FALSE, raw |-> <<>>]

AsmError(kind, has_line, line_no, has_raw, raw) ==
    [kind |-> kind, has_line |-> has_line, line_no |-> line_no, has_raw |-> has_raw, raw |-> raw]

(* ------------------------------------------------------------------ *)
(* assembler.py: parsing helpers                                      *)
(* ------------------------------------------------------------------ *)
strip_comment_and_ws(line) ==
    IF Contains(line, <<"/","/">>) THEN strip(SplitOnce(line, <<"/","/">>)[1]) ELSE strip(line)

is_label(line) == Len(line) >= 3 /\ line[1] = "(" /\ line[Len(line)] = ")"

parse_label(line) == strip(SubSeq(line, 2, Len(line) - 1))

is_a_instruction(line) == Len(line) >= 1 /\ line[1] = "@"

parse_a_symbol(line) == strip(Tail(line))

\* returns <<dest, comp, jump>>
parse_c_instruction(line) ==
    LET hasEq    == Contains(line, <<"=">>)
        dest     == IF hasEq THEN strip(SplitOnce(line, <<"=">>)[1]) ELSE None
        compjump == IF hasEq THEN SplitOnce(line, <<"=">>)[2] ELSE line
        hasSemi  == Contains(compjump, <<";">>)
        comp     == IF hasSemi THEN SplitOnce(compjump, <<";">>)[1] ELSE compjump
        jump     == IF hasSemi THEN strip(SplitOnce(compjump, <<";">>)[2]) ELSE None
    IN  <<dest, strip(comp), jump>>

\* bin(n) without prefix, n >= 0
RECURSIVE Bin(_)
Bin(n) == IF n < 2 THEN <<Digits[n + 1]>> ELSE Bin(n \div 2) \o <<Digits[(n % 2) + 1]>>

\* f"{n:0Wb}": left-padded with zeros to width w
RECURSIVE ZeroPad(_, _)
ZeroPad(s, w) == IF Len(s) >= w THEN s ELSE ZeroPad(<<"0">> \o s, w)

\* to_15bit_binary with the upper limit off by one
to_15bit_binary_limit_off_by_one(n) ==
    IF n < 0 \/ n > 32768
    THEN [ok |-> FALSE, bits |-> <<>>,
          err |-> [kind |-> "ConstantOutOfRange", has_line |-> FALSE, line_no |-> 0,
                   has_raw |-> FALSE, raw |-> <<>>]]
    ELSE [ok |-> TRUE, bits |-> ZeroPad(Bin(n), 15),
          err |-> [kind |-> "none", has_line |-> FALSE, line_no |-> 0,
                   has_raw |-> FALSE, raw |-> <<>>]]

\* to_15bit_binary: the range check raises, otherwise 15 binary digits
to_15bit_binary(n) ==
    IF n < 0 \/ n > 32767
    THEN [ok |-> FALSE, bits |-> <<>>,
          err |-> AsmError("ConstantOutOfRange", FALSE, 0, FALSE, <<>>)]
    ELSE [ok |-> TRUE, bits |-> ZeroPad(Bin(n), 15), err |-> NoError]

(* ------------------------------------------------------------------ *)
(* assembler.py: pass 1                                               *)
(* ------------------------------------------------------------------ *)
\* pass1_line binding a label to the address after the next instruction
pass1_line_label_off_by_one(s, symbols, rom_addr) ==
    LET text  == strip_comment_and_ws(s.raw)
        label == parse_label(text)
    IN  IF text = <<>>
        THEN [symbols |-> symbols, rom_addr |-> rom_addr, err |-> NoError]
        ELSE IF is_label(text)
        THEN IF label = <<>> \/ \E k \in 1..Len(label) : label[k] \in WS
             THEN [symbols |-> symbols, rom_addr |-> rom_addr,
                   err |-> AsmError("InvalidLabel", TRUE, s.line_no, TRUE, s.raw)]
             ELSE IF label \in DOMAIN symbols
             THEN IF symbols[label] # rom_addr + 1
                  THEN [symbols |-> symbols, rom_addr |-> rom_addr,
                        err |-> AsmError("LabelRedefined", TRUE, s.line_no, FALSE, <<>>)]
                  ELSE [symbols |-> symbols, rom_addr |-> rom_addr, err |-> NoError]
             ELSE [symbols |-> symbols @@ (label :> rom_addr + 1), rom_addr |-> rom_addr,
                   err |-> NoError]
        ELSE [symbols |-> symbols, rom_addr |-> rom_addr + 1, err |-> NoError]

\* pass1_line that stores the label's address whether or not the name is bound
pass1_line_rebinding(s, symbols, rom_addr) ==
    LET text  == strip_comment_and_ws(s.raw)
        label == parse_label(text)
    IN  IF text = <<>>
        THEN [symbols |-> symbols, rom_addr |-> rom_addr, err |-> NoError]
        ELSE IF is_label(text)
        THEN IF label = <<>> \/ \E k \in 1..Len(label) : label[k] \in WS
             THEN [symbols |-> symbols, rom_addr |-> rom_addr,
                   err |-> AsmError("InvalidLabel", TRUE, s.line_no, TRUE, s.raw)]
             ELSE [symbols |-> (label :> rom_addr) @@ symbols, rom_addr |-> rom_addr,
                   err |-> NoError]
        ELSE [symbols |-> symbols, rom_addr |-> rom_addr + 1, err |-> NoError]

\* One iteration of pass1_build_symbols' loop on SourceLine s.
pass1_line(s, symbols, rom_addr) ==
    LET text  == strip_comment_and_ws(s.raw)
        label == parse_label(text)
    IN  IF text = <<>>
        THEN [symbols |-> symbols, rom_addr |-> rom_addr, err |-> NoError]
        ELSE IF is_label(text)
        THEN IF label = <<>> \/ \E k \in 1..Len(label) : label[k] \in WS
             THEN [symbols |-> symbols, rom_addr |-> rom_addr,
                   err |-> AsmError("InvalidLabel", TRUE, s.line_no, TRUE, s.raw)]
             ELSE IF label \in DOMAIN symbols
             THEN IF symbols[label] # rom_addr
                  THEN [symbols |-> symbols, rom_addr |-> rom_addr,
                        err |-> AsmError("LabelRedefined", TRUE, s.line_no, FALSE, <<>>)]
                  ELSE [symbols |-> symbols, rom_addr |-> rom_addr, err |-> NoError]
             ELSE [symbols |-> symbols @@ (label :> rom_addr), rom_addr |-> rom_addr,
                   err |-> NoError]
        ELSE [symbols |-> symbols, rom_addr |-> rom_addr + 1, err |-> NoError]

\* The loop of pass1_build_symbols from line i on; `at` is the index of the line
\* whose processing raised (0 when none did).
RECURSIVE pass1_loop(_, _, _, _)
pass1_loop(lines, i, symbols, rom_addr) ==
    IF i > Len(lines)
    THEN [symbols |-> symbols, err |-> NoError, at |-> 0]
    ELSE LET r == pass1_line(lines[i], symbols, rom_addr)
         IN  IF r.err # NoError
             THEN [symbols |-> r.symbols, err |-> r.err, at |-> i]
             ELSE pass1_loop(lines, i + 1, r.symbols, r.rom_addr)

pass1_build_symbols(lines) == pass1_loop(lines, 1, PREDEFINED, 0)

(* ------------------------------------------------------------------ *)
(* assembler.py: pass 2                                               *)
(* ------------------------------------------------------------------ *)
\* a_instruction that forgets `next_var_addr += 1`
a_instruction_no_bump(text, symbols, next_var_addr) ==
    LET token == parse_a_symbol(text)
        fresh == ~isdigit(token) /\ token \notin DOMAIN symbols
        addr  == IF isdigit(token) THEN int(token)
                 ELSE IF fresh THEN next_var_addr ELSE symbols[token]
        syms  == IF fresh THEN symbols @@ (token :> addr) ELSE symbols
        b     == to_15bit_binary(addr)
    IN  [symbols |-> syms, next_var_addr |-> next_var_addr,
         out |-> IF b.ok THEN <<(<<"0">> \o b.bits)>> ELSE <<>>, err |-> b.err]

\* a_instruction that appends the 15 address bits without the leading '0'
a_instruction_no_msb(text, symbols, next_var_addr) ==
    LET token == parse_a_symbol(text)
        fresh == ~isdigit(token) /\ token \notin DOMAIN symbols
        addr  == IF isdigit(token) THEN int(token)
                 ELSE IF fresh THEN next_var_addr ELSE symbols[token]
        syms  == IF fresh THEN symbols @@ (token :> addr) ELSE symbols
        next  == IF fresh THEN next_var_addr + 1 ELSE next_var_addr
        b     == to_15bit_binary(addr)
    IN  [symbols |-> syms, next_var_addr |-> next,
         out |-> IF b.ok THEN <<b.bits>> ELSE <<>>, err |-> b.err]

\* The A-instruction branch: literal, known symbol, or a fresh variable.
a_instruction(text, symbols, next_var_addr) ==
    LET token == parse_a_symbol(text)
        fresh == ~isdigit(token) /\ token \notin DOMAIN symbols
        addr  == IF isdigit(token) THEN int(token)
                 ELSE IF fresh THEN next_var_addr ELSE symbols[token]
        syms  == IF fresh THEN symbols @@ (token :> addr) ELSE symbols
        next  == IF fresh THEN next_var_addr + 1 ELSE next_var_addr
        b     == to_15bit_binary(addr)
    IN  [symbols |-> syms, next_var_addr |-> next,
         out |-> IF b.ok THEN <<(<<"0">> \o b.bits)>> ELSE <<>>, err |-> b.err]

\* c_instruction concatenating the jump bits before the dest bits
c_instruction_fields_swapped(s, text, symbols, next_var_addr) ==
    LET p    == parse_c_instruction(text)
        dest == p[1]
        comp == p[2]
        jump == p[3]
        e    == IF comp \notin DOMAIN COMP_TABLE
                THEN AsmError("InvalidCompField", TRUE, s.line_no, TRUE, s.raw)
                ELSE IF dest \notin DOMAIN DEST_TABLE
                THEN AsmError("InvalidDestField", TRUE, s.line_no, TRUE, s.raw)
                ELSE IF jump \notin DOMAIN JUMP_TABLE
                THEN AsmError("InvalidJumpField", TRUE, s.line_no, TRUE, s.raw)
                ELSE NoError
    IN  [symbols |-> symbols, next_var_addr |-> next_var_addr,
         out |-> IF e = NoError
                 THEN <<(<<"1","1","1">> \o COMP_TABLE[comp] \o JUMP_TABLE[jump] \o DEST_TABLE[dest])>>
                 ELSE <<>>,
         err |-> e]

\* The C-instruction branch: the three table checks in the code's order.
c_instruction(s, text, symbols, next_var_addr) ==
    LET p    == parse_c_instruction(text)
        dest == p[1]
        comp == p[2]
        jump == p[3]
        e    == IF comp \notin DOMAIN COMP_TABLE
                THEN AsmError("InvalidCompField", TRUE, s.line_no, TRUE, s.raw)
                ELSE IF dest \notin DOMAIN DEST_TABLE
                THEN AsmError("InvalidDestField", TRUE, s.line_no, TRUE, s.raw)
                ELSE IF jump \notin DOMAIN JUMP_TABLE
                THEN AsmError("InvalidJumpField", TRUE, s.line_no, TRUE, s.raw)
                ELSE NoError
    IN  [symbols |-> symbols, next_var_addr |-> next_var_addr,
         out |-> IF e = NoError
                 THEN <<(<<"1","1","1">> \o COMP_TABLE[comp] \o DEST_TABLE[dest] \o JUMP_TABLE[jump])>>
                 ELSE <<>>,
         err |-> e]

\* One iteration of pass2_translate's loop on SourceLine s; out is the list of
\* words appended by this iteration.
pass2_line(s, symbols, next_var_addr) ==
    LET text == strip_comment_and_ws(s.raw)
    IN  IF text = <<>> \/ is_label(text)
        THEN [symbols |-> symbols, next_var_addr |-> next_var_addr, out |-> <<>>, err |-> NoError]
        ELSE IF is_a_instruction(text)
        THEN a_instruction(text, symbols, next_var_addr)
        ELSE c_instruction(s, text, symbols, next_var_addr)

RECURSIVE pass2_loop(_, _, _, _, _)
pass2_loop(lines, i, symbols, next_var_addr, out) ==
    IF i > Len(lines)
    THEN [symbols |-> symbols, out |-> out, err |-> NoError, at |-> 0]
    ELSE LET r == pass2_line(lines[i], symbols, next_var_addr)
         IN  IF r.err # NoError
             THEN [symbols |-> r.symbols, out |-> out, err |-> r.err, at |-> i]
             ELSE pass2_loop(lines, i + 1, r.symbols, r.next_var_addr, out \o r.out)

pass2_translate(lines, symbols) == pass2_loop(lines, 1, symbols, 16, <<>>)

(* ------------------------------------------------------------------ *)
(* ------------------------------------------------------------------ *)
(* VM translators: Parser (both chapters)                             *)
(* ------------------------------------------------------------------ *)
\* A command is the token list self.current.split() yields; each token is text.

\* Parser.command_type of chapter 7: push, pop, everything else is arithmetic
command_type7(parts) ==
    IF parts[1] = <<"p","u","s","h">> THEN "C_PUSH"
    ELSE IF parts[1] = <<"p","o","p">> THEN "C_POP"
    ELSE "C_ARITHMETIC"

\* Parser.command_type of chapter 8
command_type8(parts) ==
    IF parts[1] = <<"p","u","s","h">> THEN "C_PUSH"
    ELSE IF parts[1] = <<"p","o","p">> THEN "C_POP"
    ELSE IF parts[1] = <<"l","a","b","e","l">> THEN "C_LABEL"
    ELSE IF parts[1] = <<"g","o","t","o">> THEN "C_GOTO"
    ELSE IF parts[1] = <<"i","f","-","g","o","t","o">> THEN "C_IF"
    ELSE IF parts[1] = <<"f","u","n","c","t","i","o","n">> THEN "C_FUNCTION"
    ELSE IF parts[1] = <<"c","a","l","l">> THEN "C_CALL"
    ELSE IF parts[1] = <<"r","e","t","u","r","n">> THEN "C_RETURN"
    ELSE "C_ARITHMETIC"

command_type(ch, parts) == IF ch = 7 THEN command_type7(parts) ELSE command_type8(parts)

\* Parser.arg1: the command itself for arithmetic, the second token otherwise
arg1(ch, parts) == IF command_type(ch, parts) = "C_ARITHMETIC" THEN parts[1] ELSE parts[2]

\* Parser.arg2: int(parts[2]) (the third token)
arg2(parts) == int(parts[3])

(* ------------------------------------------------------------------ *)
(* VM translators: CodeWriter, arithmetic                             *)
(* ------------------------------------------------------------------ *)
LowerCase == <<"a","b","c","d","e","f","g","h","i","j","k","l","m",
               "n","o","p","q","r","s","t","u","v","w","x","y","z">>

UpperCase == <<"A","B","C","D","E","F","G","H","I","J","K","L","M",
               "N","O","P","Q","R","S","T","U","V","W","X","Y","Z">>

\* str.upper()
upper(s) ==
    [i \in 1..Len(s) |->
        IF \E k \in 1..Len(LowerCase) : LowerCase[k] = s[i]
        THEN UpperCase[CHOOSE k \in 1..Len(LowerCase) : LowerCase[k] = s[i]]
        ELSE s[i]]

\* What a write operation did: the lines it appended to self.lines before it
\* returned or raised, and the exception it raised ("none" when it returned).
Wrote(out) == [out |-> out, err |-> "none"]

Raised(out, err) == [out |-> out, err |-> err]

\* chapter 7 _write_binary_op
write_binary_op7(op) ==
    Wrote(<<<<"@","S","P">>, <<"A","M","=","M","-","1">>, <<"D","=","M">>, <<"A","=","A","-","1">>>> \o
          (IF op = <<"a","d","d">> THEN <<<<"M","=","M","+","D">>>>
           ELSE IF op = <<"s","u","b">> THEN <<<<"M","=","M","-","D">>>>
           ELSE IF op = <<"a","n","d">> THEN <<<<"M","=","M","&","D">>>>
           ELSE IF op = <<"o","r">> THEN <<<<"M","=","M","|","D">>>>
           ELSE <<>>))

\* chapter 8 _write_binary_op
write_binary_op8(op) ==
    Wrote(<<<<"@","S","P">>, <<"A","M","=","M","-","1">>, <<"D","=","M">>, <<"A","=","A","-","1">>>> \o
          (IF op = <<"a","d","d">> THEN <<<<"D","=","D","+","M">>, <<"M","=","D">>>>
           ELSE IF op = <<"s","u","b">> THEN <<<<"D","=","-","D">>, <<"D","=","D","+","M">>, <<"M","=","D">>>>
           ELSE IF op = <<"a","n","d">> THEN <<<<"D","=","D","&","M">>, <<"M","=","D">>>>
           ELSE IF op = <<"o","r">> THEN <<<<"D","=","D","|","M">>, <<"M","=","D">>>>
           ELSE <<>>))

\* _write_unary_op (the same in both chapters)
write_unary_op(op) ==
    Wrote(<<<<"@","S","P">>, <<"A","=","M","-","1">>>> \o
          (IF op = <<"n","e","g">> THEN <<<<"M","=","-","M">>>>
           ELSE IF op = <<"n","o","t">> THEN <<<<"M","=","!","M">>>>
           ELSE <<>>))

\* the jump mnemonic of a comparison
CompareJump(op) ==
    IF op = <<"e","q">> THEN <<"J","E","Q">> ELSE IF op = <<"g","t">> THEN <<"J","G","T">> ELSE <<"J","L","T">>

\* chapter 7 _write_compare with comparison counter n
write_compare7(op, n) ==
    LET true_label == upper(op) \o <<"_","T","R","U","E","_">> \o Str(n)
        end_label  == upper(op) \o <<"_","E","N","D","_">> \o Str(n)
    IN  Wrote(<<<<"@","S","P">>, <<"A","M","=","M","-","1">>, <<"D","=","M">>, <<"A","=","A","-","1">>, <<"D","=","M","-","D">>,
                <<"@">> \o true_label,
                <<"D",";">> \o CompareJump(op),
                <<"@","S","P">>, <<"A","=","M","-","1">>, <<"M","=","0">>,
                <<"@">> \o end_label,
                <<"0",";","J","M","P">>,
                <<"(">> \o true_label \o <<")">>,
                <<"@","S","P">>, <<"A","=","M","-","1">>, <<"M","=","-","1">>,
                <<"(">> \o end_label \o <<")">> >>)

\* chapter 8 _write_compare: the first statement evaluates op.UPPER(), an
\* attribute str does not have, so it raises before anything is appended or counted
write_compare8(op, n) == Raised(<<>>, "AttributeError")

\* write_arithmetic of chapter ch with comparison counter n: the lines appended,
\* the exception, and the counter afterwards
write_arithmetic(ch, op, n) ==
    LET comment == <<<<"/","/"," ">> \o op>>
        r == IF op \in {<<"a","d","d">>, <<"s","u","b">>, <<"a","n","d">>, <<"o","r">>}
             THEN (IF ch = 7 THEN write_binary_op7(op) ELSE write_binary_op8(op))
             ELSE IF op \in {<<"n","e","g">>, <<"n","o","t">>}
             THEN write_unary_op(op)
             ELSE IF op \in {<<"e","q">>, <<"g","t">>, <<"l","t">>}
             THEN (IF ch = 7 THEN write_compare7(op, n) ELSE write_compare8(op, n))
             ELSE Raised(<<>>, "UnknownArithmeticOp")
    IN  [out |-> comment \o r.out, err |-> r.err,
         label_count |-> IF op \in {<<"e","q">>, <<"g","t">>, <<"l","t">>} /\ r.err = "none" THEN n + 1 ELSE n]

(* ------------------------------------------------------------------ *)
(* VM translators: CodeWriter, push and pop (the same in both)        *)
(* ------------------------------------------------------------------ *)
SegmentBase(segment) ==
    IF segment = <<"l","o","c","a","l">> THEN LCL
    ELSE IF segment = <<"a","r","g","u","m","e","n","t">> THEN ARG
    ELSE IF segment = <<"t","h","i","s">> THEN THIS
    ELSE THAT

IndirectSegments == {<<"l","o","c","a","l">>, <<"a","r","g","u","m","e","n","t">>, <<"t","h","i","s">>, <<"t","h","a","t">>}

\* the generic push: *SP = D; SP++
PushD == <<<<"@","S","P">>, <<"A","=","M">>, <<"M","=","D">>, <<"@","S","P">>, <<"M","=","M","+","1">>>>

\* _write_push
write_push(segment, index, filename) ==
    IF segment = <<"c","o","n","s","t","a","n","t">>
    THEN Wrote(<<<<"@">> \o Str(index), <<"D","=","A">>>> \o PushD)
    ELSE IF segment \in IndirectSegments
    THEN Wrote(<<<<"@">> \o SegmentBase(segment), <<"D","=","M">>, <<"@">> \o Str(index), <<"A","=","D","+","A">>, <<"D","=","M">>>>
               \o PushD)
    ELSE IF segment = <<"t","e","m","p">>
    THEN Wrote(<<<<"@">> \o Str(5 + index), <<"D","=","M">>>> \o PushD)
    ELSE IF segment = <<"p","o","i","n","t","e","r">>
    THEN IF index = 0 THEN Wrote(<<<<"@","T","H","I","S">>, <<"D","=","M">>>> \o PushD)
         ELSE IF index = 1 THEN Wrote(<<<<"@","T","H","A","T">>, <<"D","=","M">>>> \o PushD)
         ELSE Raised(<<>>, "InvalidPointerIndex")
    ELSE IF segment = <<"s","t","a","t","i","c">>
    THEN Wrote(<<<<"@">> \o filename \o <<".">> \o Str(index), <<"D","=","M">>>> \o PushD)
    ELSE Raised(<<>>, "UnknownSegment")

\* _write_pop without the R13 stash: the address is left in A, where the stack
\* pop overwrites it
write_pop_no_stash(segment, index, filename) ==
    IF segment \in IndirectSegments
    THEN Wrote(<<<<"@">> \o SegmentBase(segment), <<"D","=","M">>, <<"@">> \o Str(index), <<"A","=","D","+","A">>,
                 <<"@","S","P">>, <<"A","M","=","M","-","1">>, <<"D","=","M">>, <<"M","=","D">>>>)
    ELSE IF segment = <<"t","e","m","p">>
    THEN Wrote(<<<<"@","S","P">>, <<"A","M","=","M","-","1">>, <<"D","=","M">>, <<"@">> \o Str(5 + index), <<"M","=","D">>>>)
    ELSE IF segment = <<"p","o","i","n","t","e","r">>
    THEN IF index = 0 THEN Wrote(<<<<"@","S","P">>, <<"A","M","=","M","-","1">>, <<"D","=","M">>, <<"@","T","H","I","S">>, <<"M","=","D">>>>)
         ELSE IF index = 1 THEN Wrote(<<<<"@","S","P">>, <<"A","M","=","M","-","1">>, <<"D","=","M">>, <<"@","T","H","A","T">>, <<"M","=","D">>>>)
         ELSE Raised(<<<<"@","S","P">>, <<"A","M","=","M","-","1">>, <<"D","=","M">>>>, "InvalidPointerIndex")
    ELSE IF segment = <<"s","t","a","t","i","c">>
    THEN Wrote(<<<<"@","S","P">>, <<"A","M","=","M","-","1">>, <<"D","=","M">>, <<"@">> \o filename \o <<".">> \o Str(index), <<"M","=","D">>>>)
    ELSE Raised(<<>>, "UnknownSegment")

\* _write_pop taking every pointer index but 0 for THAT
write_pop_any_pointer(segment, index, filename) ==
    IF segment \in IndirectSegments
    THEN Wrote(<<<<"@">> \o SegmentBase(segment), <<"D","=","M">>, <<"@">> \o Str(index), <<"D","=","D","+","A">>,
                 <<"@","R","1","3">>, <<"M","=","D">>,
                 <<"@","S","P">>, <<"A","M","=","M","-","1">>, <<"D","=","M">>, <<"@","R","1","3">>, <<"A","=","M">>, <<"M","=","D">>>>)
    ELSE IF segment = <<"t","e","m","p">>
    THEN Wrote(<<<<"@","S","P">>, <<"A","M","=","M","-","1">>, <<"D","=","M">>, <<"@">> \o Str(5 + index), <<"M","=","D">>>>)
    ELSE IF segment = <<"p","o","i","n","t","e","r">>
    THEN IF index = 0 THEN Wrote(<<<<"@","S","P">>, <<"A","M","=","M","-","1">>, <<"D","=","M">>, <<"@","T","H","I","S">>, <<"M","=","D">>>>)
         ELSE Wrote(<<<<"@","S","P">>, <<"A","M","=","M","-","1">>, <<"D","=","M">>, <<"@","T","H","A","T">>, <<"M","=","D">>>>)
    ELSE IF segment = <<"s","t","a","t","i","c">>
    THEN Wrote(<<<<"@","S","P">>, <<"A","M","=","M","-","1">>, <<"D","=","M">>, <<"@">> \o filename \o <<".">> \o Str(index), <<"M","=","D">>>>)
    ELSE Raised(<<>>, "UnknownSegment")

\* _write_pop
write_pop(segment, index, filename) ==
    IF segment \in IndirectSegments
    THEN Wrote(<<<<"@">> \o SegmentBase(segment), <<"D","=","M">>, <<"@">> \o Str(index), <<"D","=","D","+","A">>,
                 <<"@","R","1","3">>, <<"M","=","D">>,
                 <<"@","S","P">>, <<"A","M","=","M","-","1">>, <<"D","=","M">>, <<"@","R","1","3">>, <<"A","=","M">>, <<"M","=","D">>>>)
    ELSE IF segment = <<"t","e","m","p">>
    THEN Wrote(<<<<"@","S","P">>, <<"A","M","=","M","-","1">>, <<"D","=","M">>, <<"@">> \o Str(5 + index), <<"M","=","D">>>>)
    ELSE IF segment = <<"p","o","i","n","t","e","r">>
    THEN IF index = 0 THEN Wrote(<<<<"@","S","P">>, <<"A","M","=","M","-","1">>, <<"D","=","M">>, <<"@","T","H","I","S">>, <<"M","=","D">>>>)
         ELSE IF index = 1 THEN Wrote(<<<<"@","S","P">>, <<"A","M","=","M","-","1">>, <<"D","=","M">>, <<"@","T","H","A","T">>, <<"M","=","D">>>>)
         ELSE Raised(<<<<"@","S","P">>, <<"A","M","=","M","-","1">>, <<"D","=","M">>>>, "InvalidPointerIndex")
    ELSE IF segment = <<"s","t","a","t","i","c">>
    THEN Wrote(<<<<"@","S","P">>, <<"A","M","=","M","-","1">>, <<"D","=","M">>, <<"@">> \o filename \o <<".">> \o Str(index), <<"M","=","D">>>>)
    ELSE Raised(<<>>, "UnknownSegment")

\* write_push_pop
write_push_pop(ctype, segment, index, filename) ==
    LET cmd == IF ctype = "C_PUSH" THEN <<"p","u","s","h">> ELSE <<"p","o","p">>
        comment == <<<<"/","/"," ">> \o cmd \o <<" ">> \o segment \o <<" ">> \o Str(index)>>
        r == IF ctype = "C_PUSH" THEN write_push(segment, index, filename)
             ELSE write_pop(segment, index, filename)
    IN  [out |-> comment \o r.out, err |-> r.err]

(* ------------------------------------------------------------------ *)
(* Chapter 8 CodeWriter: program flow, functions, bootstrap           *)
(* ------------------------------------------------------------------ *)
\* _scoped_label: functionName$label inside a function, the bare label outside
scoped_label(current_function, label) ==
    IF current_function # <<>> THEN current_function \o <<"$">> \o label ELSE label

\* write_label
write_label(current_function, label) ==
    Wrote(<<<<"/","/"," ","l","a","b","e","l"," ">> \o label,
            <<"(">> \o scoped_label(current_function, label) \o <<")">> >>)

\* write_goto that jumps to the bare label
write_goto_unscoped(current_function, label) ==
    Wrote(<<<<"/","/"," ","g","o","t","o"," ">> \o label,
            <<"@">> \o label,
            <<"0",";","J","M","P">>>>)

\* write_goto
write_goto(current_function, label) ==
    Wrote(<<<<"/","/"," ","g","o","t","o"," ">> \o label,
            <<"@">> \o scoped_label(current_function, label),
            <<"0",";","J","M","P">>>>)

\* write_if that jumps on a positive value only
write_if_positive_only(current_function, label) ==
    Wrote(<<<<"/","/"," ","i","f","-","g","o","t","o"," ">> \o label,
            <<"@","S","P">>, <<"A","M","=","M","-","1">>, <<"D","=","M">>,
            <<"@">> \o scoped_label(current_function, label),
            <<"D",";","J","G","T">>>>)

\* write_if
write_if(current_function, label) ==
    Wrote(<<<<"/","/"," ","i","f","-","g","o","t","o"," ">> \o label,
            <<"@","S","P">>, <<"A","M","=","M","-","1">>, <<"D","=","M">>,
            <<"@">> \o scoped_label(current_function, label),
            <<"D",";","J","N","E">>>>)

\* k repetitions of the lines _write_push("constant", 0) appends
RECURSIVE PushZeros(_)
PushZeros(k) == IF k = 0 THEN <<>> ELSE write_push(<<"c","o","n","s","t","a","n","t">>, 0, <<>>).out \o PushZeros(k - 1)

\* write_function; self.current_function becomes name
write_function(name, num_locals) ==
    Wrote(<<<<"/","/"," ","f","u","n","c","t","i","o","n"," ">> \o name \o <<" ">> \o Str(num_locals),
            <<"(">> \o name \o <<")">> >> \o PushZeros(num_locals))

\* the return label write_call builds from self.call_count
return_label(name, call_count) == name \o <<"$","r","e","t",".">> \o Str(call_count)

\* push of a pointer register in write_call
PushRegister(seg) == <<<<"@">> \o seg, <<"D","=","M">>, <<"@","S","P">>, <<"A","=","M">>, <<"M","=","D">>, <<"@","S","P">>, <<"M","=","M","+","1">>>>

\* write_call that sets ARG to SP - 5, whatever the number of arguments
write_call_arg_ignores_n(name, num_args, call_count) ==
    Wrote(<<<<"/","/"," ","c","a","l","l"," ">> \o name \o <<" ">> \o Str(num_args),
            <<"@">> \o return_label(name, call_count),
            <<"D","=","A">>, <<"@","S","P">>, <<"A","=","M">>, <<"M","=","D">>, <<"@","S","P">>, <<"M","=","M","+","1">>>>
          \o PushRegister(LCL) \o PushRegister(ARG) \o PushRegister(THIS) \o PushRegister(THAT)
          \o <<<<"@","S","P">>, <<"D","=","M">>, <<"@","5">>, <<"D","=","D","-","A">>, <<"@","A","R","G">>, <<"M","=","D">>,
               <<"@","S","P">>, <<"D","=","M">>, <<"@","L","C","L">>, <<"M","=","D">>,
               <<"@">> \o name, <<"0",";","J","M","P">>,
               <<"(">> \o return_label(name, call_count) \o <<")">> >>)

\* write_call; self.call_count becomes call_count + 1
write_call(name, num_args, call_count) ==
    Wrote(<<<<"/","/"," ","c","a","l","l"," ">> \o name \o <<" ">> \o Str(num_args),
            <<"@">> \o return_label(name, call_count),
            <<"D","=","A">>, <<"@","S","P">>, <<"A","=","M">>, <<"M","=","D">>, <<"@","S","P">>, <<"M","=","M","+","1">>>>
          \o PushRegister(LCL) \o PushRegister(ARG) \o PushRegister(THIS) \o PushRegister(THAT)
          \o <<<<"@","S","P">>, <<"D","=","M">>, <<"@","5">>, <<"D","=","D","-","A">>, <<"@">> \o Str(num_args), <<"D","=","D","-","A">>, <<"@","A","R","G">>, <<"M","=","D">>,
               <<"@","S","P">>, <<"D","=","M">>, <<"@","L","C","L">>, <<"M","=","D">>,
               <<"@">> \o name, <<"0",";","J","M","P">>,
               <<"(">> \o return_label(name, call_count) \o <<")">> >>)

\* _restore_segment_from_frame
restore_segment_from_frame(seg, offset) ==
    <<<<"@","R","1","3">>, <<"D","=","M">>, <<"@">> \o Str(offset), <<"A","=","D","-","A">>, <<"D","=","M">>, <<"@">> \o seg, <<"M","=","D">>>>

\* write_return reading the return address only at the end, from FRAME - 5,
\* after the return value has been stored at RAM[ARG]
write_return_late_address ==
    Wrote(<<<<"/","/"," ","r","e","t","u","r","n">>,
            <<"@","L","C","L">>, <<"D","=","M">>, <<"@","R","1","3">>, <<"M","=","D">>,
            <<"@","S","P">>, <<"A","M","=","M","-","1">>, <<"D","=","M">>, <<"@","A","R","G">>, <<"A","=","M">>, <<"M","=","D">>,
            <<"@","A","R","G">>, <<"D","=","M","+","1">>, <<"@","S","P">>, <<"M","=","D">>>>
          \o restore_segment_from_frame(THAT, 1)
          \o restore_segment_from_frame(THIS, 2)
          \o restore_segment_from_frame(ARG, 3)
          \o restore_segment_from_frame(LCL, 4)
          \o <<<<"@","R","1","3">>, <<"D","=","M">>, <<"@","5">>, <<"A","=","D","-","A">>, <<"A","=","M">>, <<"0",";","J","M","P">>>>)

\* write_return
write_return ==
    Wrote(<<<<"/","/"," ","r","e","t","u","r","n">>,
            <<"@","L","C","L">>, <<"D","=","M">>, <<"@","R","1","3">>, <<"M","=","D">>,
            <<"@","5">>, <<"A","=","D","-","A">>, <<"D","=","M">>, <<"@","R","1","4">>, <<"M","=","D">>,
            <<"@","S","P">>, <<"A","M","=","M","-","1">>, <<"D","=","M">>, <<"@","A","R","G">>, <<"A","=","M">>, <<"M","=","D">>,
            <<"@","A","R","G">>, <<"D","=","M","+","1">>, <<"@","S","P">>, <<"M","=","D">>>>
          \o restore_segment_from_frame(THAT, 1)
          \o restore_segment_from_frame(THIS, 2)
          \o restore_segment_from_frame(ARG, 3)
          \o restore_segment_from_frame(LCL, 4)
          \o <<<<"@","R","1","4">>, <<"A","=","M">>, <<"0",";","J","M","P">>>>)

\* write_init: SP = 256, then write_call("Sys.init", 0)
write_init(call_count) ==
    Wrote(<<<<"/","/"," ","b","o","o","t","s","t","r","a","p",":"," ","S","P","=","2","5","6",";"," ","c","a","l","l"," ","S","y","s",".","i","n","i","t">>, <<"@","2","5","6">>, <<"D","=","A">>, <<"@","S","P">>, <<"M","=","D">>>>
          \o write_call(<<"S","y","s",".","i","n","i","t">>, 0, call_count).out)

(* ------------------------------------------------------------------ *)
(* The Hack machine the emitted assembly runs on                      *)
(* ------------------------------------------------------------------ *)
\* a 16-bit word
Word(n) == n % 65536

\* a word read as a two's-complement number
Signed(w) == IF w >= 32768 THEN w - 65536 ELSE w

RECURSIVE BitAnd(_, _)
BitAnd(x, y) ==
    IF x = 0 \/ y = 0 THEN 0
    ELSE (x % 2) * (y % 2) + 2 * BitAnd(x \div 2, y \div 2)

BitNot(x) == 65535 - x

BitOr(x, y) == BitNot(BitAnd(BitNot(x), BitNot(y)))

\* the computations of the instruction set: those of COMP_TABLE and the same
\* sums, conjunctions and disjunctions with their operands exchanged
HackComps ==
    DOMAIN COMP_TABLE \cup
    {<<"A","+","D">>, <<"M","+","D">>, <<"A","&","D">>, <<"M","&","D">>, <<"A","|","D">>, <<"M","|","D">>}

\* an operand of a computation with registers a, d and memory word m
Operand(c, a, d, m) ==
    IF c = "A" THEN a ELSE IF c = "D" THEN d ELSE IF c = "M" THEN m
    ELSE IF c = "1" THEN 1 ELSE 0

\* the value the ALU computes for comp
ALU(comp, a, d, m) ==
    IF Len(comp) = 1 THEN Operand(comp[1], a, d, m)
    ELSE IF Len(comp) = 2
    THEN IF comp[1] = "-" THEN Word(65536 - Operand(comp[2], a, d, m))
         ELSE BitNot(Operand(comp[2], a, d, m))
    ELSE LET x == Operand(comp[1], a, d, m)
             y == Operand(comp[3], a, d, m)
         IN  IF comp[2] = "+" THEN Word(x + y)
             ELSE IF comp[2] = "-" THEN Word(x + 65536 - y)
             ELSE IF comp[2] = "&" THEN BitAnd(x, y)
             ELSE BitOr(x, y)

\* whether jump is taken on the computed word v
Jumps(jump, v) ==
    IF jump = None THEN FALSE
    ELSE IF jump = <<"J","G","T">> THEN Signed(v) > 0
    ELSE IF jump = <<"J","E","Q">> THEN v = 0
    ELSE IF jump = <<"J","G","E">> THEN Signed(v) >= 0
    ELSE IF jump = <<"J","L","T">> THEN Signed(v) < 0
    ELSE IF jump = <<"J","N","E">> THEN v # 0
    ELSE IF jump = <<"J","L","E">> THEN Signed(v) <= 0
    ELSE TRUE

\* the memory word register A selects (its low 15 bits are the address)
AddressM(a) == a % 32768

Mentions(field, c) == \E k \in 1..Len(field) : field[k] = c

\* One instruction. m is [A, D, pc, ram, ok]; ok is lost when the instruction
\* addresses memory the model does not hold or is not an instruction of the machine.
Step(m, ins) ==
    IF ins.kind = "A"
    THEN [m EXCEPT !.A = ins.value, !.pc = m.pc + 1]
    ELSE LET uses_m == Mentions(ins.comp, "M") \/ Mentions(ins.dest, "M")
             addr   == AddressM(m.A)
         IN  IF ins.comp \notin HackComps \/ ins.dest \notin DOMAIN DEST_TABLE
                \/ ins.jump \notin DOMAIN JUMP_TABLE
                \/ (uses_m /\ addr \notin DOMAIN m.ram)
             THEN [m EXCEPT !.ok = FALSE]
             ELSE LET mem == IF uses_m THEN m.ram[addr] ELSE 0
                      v   == ALU(ins.comp, m.A, m.D, mem)
                  IN  [A   |-> IF Mentions(ins.dest, "A") THEN v ELSE m.A,
                       D   |-> IF Mentions(ins.dest, "D") THEN v ELSE m.D,
                       pc  |-> IF Jumps(ins.jump, v) THEN m.A ELSE m.pc + 1,
                       ram |-> IF Mentions(ins.dest, "M") THEN [m.ram EXCEPT ![addr] = v]
                               ELSE m.ram,
                       ok  |-> TRUE]

\* Run the instructions rom, loaded at ROM address lo, until the program counter
\* leaves them; fuel bounds the number of instructions executed.
RECURSIVE Run(_, _, _, _)
Run(m, rom, lo, fuel) ==
    IF ~m.ok \/ m.pc < lo \/ m.pc >= lo + Len(rom) THEN m
    ELSE IF fuel = 0 THEN [m EXCEPT !.ok = FALSE]
    ELSE Run(Step(m, rom[m.pc - lo + 1]), rom, lo, fuel - 1)

(* ------------------------------------------------------------------ *)
(* Loading emitted assembly: the assembler's symbol resolution        *)
(* ------------------------------------------------------------------ *)
\* What loading has built: the symbol table, the next ROM and variable
\* addresses, the decoded instructions, and whether every line was accepted.
Loaded(symtab, rom_addr, next_var_addr, rom, ok) ==
    [symbols |-> symtab, rom_addr |-> rom_addr, next_var_addr |-> next_var_addr,
     rom |-> rom, ok |-> ok]

\* Pass 1 on one line, line_no in the file: a label is bound to the next ROM address.
LoadLabel(ld, raw, line_no) ==
    LET r == pass1_line([raw |-> raw, line_no |-> line_no], ld.symbols, ld.rom_addr)
    IN  Loaded(r.symbols, r.rom_addr, ld.next_var_addr, ld.rom, ld.ok /\ r.err = NoError)

\* Pass 2 on one line: an instruction is decoded, an A-instruction resolved as
\* pass2_translate resolves it (literal, symbol, or a fresh variable).
LoadInstruction(ld, raw) ==
    LET text == strip_comment_and_ws(raw)
        r    == a_instruction(text, ld.symbols, ld.next_var_addr)
        f    == parse_c_instruction(text)
    IN  IF text = <<>> \/ is_label(text) THEN ld
        ELSE IF is_a_instruction(text)
        THEN IF r.err # NoError
             THEN Loaded(r.symbols, ld.rom_addr, r.next_var_addr, ld.rom, FALSE)
             ELSE Loaded(r.symbols, ld.rom_addr, r.next_var_addr,
                         Append(ld.rom, [kind |-> "A", value |-> BinValue(r.out[1]),
                                         dest |-> None, comp |-> None, jump |-> None]),
                         ld.ok)
        ELSE Loaded(ld.symbols, ld.rom_addr, ld.next_var_addr,
                    Append(ld.rom, [kind |-> "C", value |-> 0,
                                    dest |-> f[1], comp |-> f[2], jump |-> f[3]]),
                    ld.ok)

\* pass 1 over the lines lo..hi of frag, `before` lines preceding frag (the loop
\* is folded by halves)
RECURSIVE LoadLabels(_, _, _, _, _)
LoadLabels(frag, lo, hi, before, ld) ==
    IF lo > hi THEN ld
    ELSE IF lo = hi THEN LoadLabel(ld, frag[lo], before + lo)
    ELSE CHOOSE done \in {LoadLabels(frag, (lo + hi) \div 2 + 1, hi, before, half) :
                             half \in {LoadLabels(frag, lo, (lo + hi) \div 2, before, ld)}} : TRUE

\* pass 2 over the lines lo..hi of frag
RECURSIVE LoadInstructions(_, _, _, _)
LoadInstructions(frag, lo, hi, ld) ==
    IF lo > hi THEN ld
    ELSE IF lo = hi THEN LoadInstruction(ld, frag[lo])
    ELSE CHOOSE done \in {LoadInstructions(frag, (lo + hi) \div 2 + 1, hi, half) :
                             half \in {LoadInstructions(frag, lo, (lo + hi) \div 2, ld)}} : TRUE

\* The lines frag appended to a program of `before` lines whose symbols are view:
\* the extended view and the decoded instructions of frag.
Load(frag, before, view) ==
    LET start == Loaded(view.symbols, view.rom_addr, view.next_var_addr, <<>>, TRUE)
        ld    == LoadInstructions(frag, 1, Len(frag), LoadLabels(frag, 1, Len(frag), before, start))
    IN  [view |-> [symbols |-> ld.symbols, rom_addr |-> ld.rom_addr,
                   next_var_addr |-> ld.next_var_addr],
         rom |-> ld.rom, ok |-> ld.ok]

(* ------------------------------------------------------------------ *)
(* State                                                              *)
(* ------------------------------------------------------------------ *)
VARIABLES
    asm_lines,   \* assemble(): the SourceLine list built from the input text
    asm_pc,      \* where main is: "start", "pass1", "pass2", "written", "failed"
    symbols,     \* the symbol table (a dict of name -> address)
    machine,     \* the words pass 2 returned
    asm_err,     \* the AsmError main caught (NoError when none)
    err_at,      \* index in asm_lines of the line being processed when it raised
    hack_file,   \* the output file: [exists, content]
    exit_code,   \* the process's exit status (-1 while running)
    chapter,     \* which VM translator runs: 7 (vm_translator.py) or 8 (VM_translator2.py)
    commands,    \* Parser.commands when the run fixes the file's text (<<>>: drawn as it advances)
    vm_mode,     \* main's input: "file" (one .vm file) or "dir" (a directory)
    vm_pc,       \* where the translator is: "main", "between", "in_file", "written", "aborted"
    file_idx,    \* how many of the directory's sorted .vm files have been begun
    current,     \* Parser.current, as the token list its split() yields
    n_cmds,      \* commands the parser has advanced over in this run
    lines,       \* CodeWriter.lines
    filename,    \* CodeWriter.filename
    label_count, \* CodeWriter.label_count
    call_count,  \* CodeWriter.call_count (chapter 8)
    current_function, \* CodeWriter.current_function (chapter 8)
    vm_err,      \* the exception that ended the run ("none" when none did)
    asm_file,    \* the .asm output file: [exists, content]
    cpu,         \* the Hack machine's registers [A, D]
    ram,         \* the Hack machine's data memory
    view,        \* the loaded program's symbols: [symbols, rom_addr, next_var_addr]
    pc,          \* the Hack machine's program counter
    image,       \* the whole program as loaded: [rom, symbols, starts, marks]
    calls        \* history: the calls under way, [S, n, saved, ret] each, innermost last

asm_vars == <<asm_lines, asm_pc, symbols, machine, asm_err, err_at, hack_file, exit_code>>

writer_vars == <<lines, filename, label_count, call_count, current_function>>

hack_vars == <<cpu, ram, view, pc, image, calls>>

vm_vars == <<chapter, vm_mode, commands, vm_pc, file_idx, current, n_cmds, writer_vars, vm_err, asm_file>>

vars == <<asm_vars, vm_vars, hack_vars>>

\* no assembler run
AsmIdle ==
    /\ asm_lines = <<>>
    /\ asm_pc = "idle"
    /\ symbols = PREDEFINED
    /\ machine = <<>>
    /\ asm_err = NoError
    /\ err_at = 0
    /\ hack_file = [exists |-> FALSE, content |-> <<>>]
    /\ exit_code = -1

\* CodeWriter.__init__ and a parser not yet advanced
WriterInit ==
    /\ lines = <<>>
    /\ filename = <<>>
    /\ label_count = 0
    /\ call_count = 0
    /\ current_function = <<>>
    /\ current = <<>>
    /\ n_cmds = 0
    /\ file_idx = 0
    /\ vm_err = "none"
    /\ asm_file = [exists |-> FALSE, content |-> <<>>]

\* no translator run
VmIdle ==
    /\ chapter = 8
    /\ commands = <<>>
    /\ vm_mode = "file"
    /\ vm_pc = "idle"
    /\ WriterInit

\* no program loaded as a whole, no call under way
NoImage ==
    /\ pc = 0
    /\ image = [rom |-> <<>>, symbols |-> PREDEFINED, starts |-> <<>>, marks |-> <<>>]
    /\ calls = <<>>

\* no machine
HackIdle ==
    /\ cpu = [A |-> 0, D |-> 0]
    /\ ram = <<>>
    /\ view = [symbols |-> PREDEFINED, rom_addr |-> 0, next_var_addr |-> 16]
    /\ NoImage

(* ------------------------------------------------------------------ *)
(* assembler.py: the run (assemble and main)                          *)
(* ------------------------------------------------------------------ *)
\* Raw source lines the programs of the model are drawn from.
LinePool ==
    { <<"@","3","2","7","6","7">>,
      <<"@","3","2","7","6","8">>,
      <<"(","L",")">>,
      <<"@","L">>,
      <<"(","7",")">>,
      <<"@","7">>,
      <<"@","i">>,
      <<"@","j">>,
      <<"@","R","1">>,
      <<"(","R","1",")">>,
      <<"D","=","A">>,
      <<"0",";","J","M","P">>,
      <<"=","D">>,
      <<"D",";">>,
      <<" ","M"," ","="," ","D"," ",";","J","G","T"," ","/","/","x">>,
      <<" ","/","/"," ","c">>,
      <<"("," ",")">>,
      <<"D","=","X">>,
      <<"X","=","D">>,
      <<"D",";","J">> }

RECURSIVE SeqsUpTo(_, _)
SeqsUpTo(S, n) ==
    IF n = 0 THEN {<<>>}
    ELSE LET shorter == SeqsUpTo(S, n - 1)
         IN  shorter \cup {Append(p, x) : p \in {q \in shorter : Len(q) = n - 1}, x \in S}

\* assemble(): lines = [SourceLine(raw, i+1) for i, l in enumerate(text.splitlines())]
SourceLines(raws) == [i \in 1..Len(raws) |-> [raw |-> raws[i], line_no |-> i]]

InitAsm ==
    /\ VmIdle
    /\ HackIdle
    /\ asm_lines \in {SourceLines(p) : p \in SeqsUpTo(LinePool, MaxLines)}
    /\ asm_pc = "start"
    /\ symbols = PREDEFINED
    /\ machine = <<>>
    /\ asm_err = NoError
    /\ err_at = 0
    /\ hack_file = [exists |-> FALSE, content |-> <<>>]
    /\ exit_code = -1

\* main's except AsmError branch: print the message, sys.exit(2)
AsmFail(e, at) ==
    /\ asm_pc' = "failed"
    /\ asm_err' = e
    /\ err_at' = at
    /\ exit_code' = 2

\* assemble(): symbols = pass1_build_symbols(lines)
Pass1 ==
    /\ asm_pc = "start"
    /\ LET r == pass1_build_symbols(asm_lines)
       IN  IF r.err # NoError
           THEN AsmFail(r.err, r.at) /\ UNCHANGED <<asm_lines, symbols, machine, hack_file>>
           ELSE /\ asm_pc' = "pass1"
                /\ symbols' = r.symbols
                /\ UNCHANGED <<asm_lines, machine, asm_err, err_at, hack_file, exit_code>>
    /\ UNCHANGED <<vm_vars, hack_vars>>

\* assemble(): machine = pass2_translate(lines, symbols); the dict is mutated in place
Pass2 ==
    /\ asm_pc = "pass1"
    /\ LET r == pass2_translate(asm_lines, symbols)
       IN  IF r.err # NoError
           THEN AsmFail(r.err, r.at) /\ symbols' = r.symbols
                /\ UNCHANGED <<asm_lines, machine, hack_file>>
           ELSE /\ asm_pc' = "pass2"
                /\ symbols' = r.symbols
                /\ machine' = r.out
                /\ UNCHANGED <<asm_lines, asm_err, err_at, hack_file, exit_code>>
    /\ UNCHANGED <<vm_vars, hack_vars>>

\* main: open(out_path, "w") and write one word per line; the run ends with status 0
WriteHack ==
    /\ asm_pc = "pass2"
    /\ asm_pc' = "written"
    /\ hack_file' = [exists |-> TRUE, content |-> machine]
    /\ exit_code' = 0
    /\ UNCHANGED <<asm_lines, symbols, machine, asm_err, err_at>>
    /\ UNCHANGED <<vm_vars, hack_vars>>

NextAsm == Pass1 \/ Pass2 \/ WriteHack

SpecAsm == InitAsm /\ [][NextAsm]_vars

(* ------------------------------------------------------------------ *)
(* The VM translators' run (translate_vm / translate_vm_text, main)   *)
(* ------------------------------------------------------------------ *)
\* The .vm files an input can hold, in sorted order (names without extension); a
\* directory holds some of them, a file input is one of them.
FileNames == <<<<"M","a","i","n">>, <<"S","y","s">>>>

\* Commands the translated programs are drawn from.
CommandPool ==
    { <<<<"e","q">>>>, <<<<"g","t">>>>, <<<<"l","t">>>>, <<<<"a","d","d">>>>, <<<<"f","o","o">>>>,
      <<<<"p","u","s","h">>, <<"c","o","n","s","t","a","n","t">>, <<"7">>>>,
      <<<<"p","o","p">>, <<"l","o","c","a","l">>, <<"0">>>>,
      <<<<"p","o","p">>, <<"p","o","i","n","t","e","r">>, <<"2">>>>,
      <<<<"p","u","s","h">>, <<"p","o","i","n","t","e","r">>, <<"2">>>>,
      <<<<"p","u","s","h">>, <<"h","e","a","p">>, <<"0">>>>,
      <<<<"p","o","p">>, <<"h","e","a","p">>, <<"0">>>>,
      <<<<"p","o","p">>, <<"c","o","n","s","t","a","n","t">>, <<"7">>>>,
      <<<<"l","a","b","e","l">>, <<"L">>>>,
      <<<<"l","a","b","e","l">>, <<"r","e","t",".","0">>>>,
      <<<<"g","o","t","o">>, <<"L">>>>,
      <<<<"i","f","-","g","o","t","o">>, <<"L">>>>,
      <<<<"f","u","n","c","t","i","o","n">>, <<"f">>, <<"1">>>>,
      <<<<"c","a","l","l">>, <<"f">>, <<"0">>>>,
      <<<<"r","e","t","u","r","n">>>> }

InitVM ==
    /\ AsmIdle
    /\ HackIdle
    /\ chapter \in {7, 8}
    /\ vm_mode \in (IF chapter = 7 THEN {"file"} ELSE {"file", "dir"})
    /\ commands = <<>>
    /\ vm_pc = "main"
    /\ WriterInit

\* chapter 8 main, directory input: writer.write_init() before any file
WriteInit ==
    /\ vm_pc = "main"
    /\ chapter = 8
    /\ vm_mode = "dir"
    /\ vm_pc' = "between"
    /\ lines' = lines \o write_init(call_count).out
    /\ call_count' = call_count + 1
    /\ UNCHANGED <<chapter, vm_mode, commands, file_idx, current, n_cmds, filename, label_count,
                   current_function, vm_err, asm_file>>
    /\ UNCHANGED <<asm_vars, hack_vars>>

\* BeginFile with the bootstrap emitted for each file of a directory
BeginFile_with_bootstrap ==
    /\ \/ vm_pc = "main" /\ vm_mode = "file"
       \/ vm_pc \in {"between", "in_file"} /\ vm_mode = "dir"
    /\ file_idx < Len(FileNames)
    /\ \E k \in (file_idx + 1)..Len(FileNames) :
          /\ file_idx' = k
          /\ filename' = FileNames[k]
          /\ lines' = IF chapter = 8
                      THEN Append(lines \o (IF vm_mode = "dir" /\ file_idx > 0
                                             THEN write_init(call_count).out ELSE <<>>),
                                  <<"/","/"," ","=","=","="," ">> \o FileNames[k] \o <<".","v","m"," ","=","=","=">>)
                      ELSE lines
    /\ vm_pc' = "in_file"
    /\ current' = <<>>
    /\ UNCHANGED <<chapter, vm_mode, commands, n_cmds, label_count, call_count, current_function,
                   vm_err, asm_file>>
    /\ UNCHANGED <<asm_vars, hack_vars>>

\* BeginFile with a set_file_name that starts the label numbering afresh
BeginFile_resets_counters ==
    /\ \/ vm_pc = "main" /\ vm_mode = "file"
       \/ vm_pc \in {"between", "in_file"} /\ vm_mode = "dir"
    /\ file_idx < Len(FileNames)
    /\ \E k \in (file_idx + 1)..Len(FileNames) :
          /\ file_idx' = k
          /\ filename' = FileNames[k]
          /\ lines' = IF chapter = 8
                      THEN Append(lines, <<"/","/"," ","=","=","="," ">> \o FileNames[k] \o <<".","v","m"," ","=","=","=">>)
                      ELSE lines
    /\ vm_pc' = "in_file"
    /\ current' = <<>>
    /\ label_count' = 0
    /\ call_count' = 0
    /\ UNCHANGED <<chapter, vm_mode, commands, n_cmds, current_function, vm_err, asm_file>>
    /\ UNCHANGED <<asm_vars, hack_vars>>

\* The next file is opened: chapter 8 appends the "// === name.vm ===" line, then
\* translate_vm / translate_vm_text make a Parser and call set_file_name.
BeginFile ==
    /\ \/ vm_pc = "main" /\ vm_mode = "file"
       \/ vm_pc \in {"between", "in_file"} /\ vm_mode = "dir"
    /\ file_idx < Len(FileNames)
    /\ \E k \in (file_idx + 1)..Len(FileNames) :
          /\ file_idx' = k
          /\ filename' = FileNames[k]
          /\ lines' = IF chapter = 8
                      THEN Append(lines, <<"/","/"," ","=","=","="," ">> \o FileNames[k] \o <<".","v","m"," ","=","=","=">>)
                      ELSE lines
    /\ vm_pc' = "in_file"
    /\ current' = <<>>
    /\ UNCHANGED <<chapter, vm_mode, commands, n_cmds, label_count, call_count, current_function,
                   vm_err, asm_file>>
    /\ UNCHANGED <<asm_vars, hack_vars>>

\* parser.advance() onto cmd, whose command_type is ctype
Advance(cmd, ctype) ==
    /\ vm_pc = "in_file"
    /\ command_type(chapter, cmd) = ctype
    /\ current' = cmd
    /\ n_cmds' = n_cmds + 1

\* The write operation appended r.out; an exception it raised ends the run
\* (neither main nor the translate loop catches anything).
Emit(r) ==
    /\ lines' = lines \o r.out
    /\ IF r.err = "none"
       THEN UNCHANGED <<vm_pc, vm_err>>
       ELSE vm_pc' = "aborted" /\ vm_err' = r.err

\* writer.write_arithmetic(parser.arg1()), r being what the operation did
DoArithmetic(cmd, r) ==
    /\ Advance(cmd, "C_ARITHMETIC")
    /\ Emit(r)
    /\ label_count' = r.label_count
    /\ UNCHANGED <<chapter, vm_mode, commands, file_idx, filename, call_count, current_function, asm_file>>

\* writer.write_push_pop(ctype, parser.arg1(), parser.arg2()), r being what it did
DoPushPop(cmd, ctype, r) ==
    /\ Advance(cmd, ctype)
    /\ Emit(r)
    /\ UNCHANGED <<chapter, vm_mode, commands, file_idx, filename, label_count, call_count,
                   current_function, asm_file>>

\* the commands of the pool whose command_type is ctype
Commands(ctype) == {cmd \in CommandPool : command_type(chapter, cmd) = ctype}

ArithmeticResult(cmd) == write_arithmetic(chapter, arg1(chapter, cmd), label_count)

PushPopResult(cmd) ==
    write_push_pop(command_type(chapter, cmd), arg1(chapter, cmd), arg2(cmd), filename)

TranslateArithmetic ==
    /\ n_cmds < MaxCmds
    /\ \E cmd \in Commands("C_ARITHMETIC") : \E r \in {ArithmeticResult(cmd)} : DoArithmetic(cmd, r)
    /\ UNCHANGED <<asm_vars, hack_vars>>

TranslatePush ==
    /\ n_cmds < MaxCmds
    /\ \E cmd \in Commands("C_PUSH") : \E r \in {PushPopResult(cmd)} :
          DoPushPop(cmd, "C_PUSH", r)
    /\ UNCHANGED <<asm_vars, hack_vars>>

TranslatePop ==
    /\ n_cmds < MaxCmds
    /\ \E cmd \in Commands("C_POP") : \E r \in {PushPopResult(cmd)} :
          DoPushPop(cmd, "C_POP", r)
    /\ UNCHANGED <<asm_vars, hack_vars>>

\* writer.write_label(parser.arg1())
DoLabel(cmd) ==
    /\ Advance(cmd, "C_LABEL")
    /\ Emit(write_label(current_function, arg1(chapter, cmd)))
    /\ UNCHANGED <<chapter, vm_mode, commands, file_idx, filename, label_count, call_count,
                   current_function, asm_file>>

\* writer.write_goto(parser.arg1())
DoGoto(cmd) ==
    /\ Advance(cmd, "C_GOTO")
    /\ Emit(write_goto(current_function, arg1(chapter, cmd)))
    /\ UNCHANGED <<chapter, vm_mode, commands, file_idx, filename, label_count, call_count,
                   current_function, asm_file>>

\* writer.write_if(parser.arg1())
DoIf(cmd) ==
    /\ Advance(cmd, "C_IF")
    /\ Emit(write_if(current_function, arg1(chapter, cmd)))
    /\ UNCHANGED <<chapter, vm_mode, commands, file_idx, filename, label_count, call_count,
                   current_function, asm_file>>

\* writer.write_function(parser.arg1(), parser.arg2())
DoFunction(cmd) ==
    /\ Advance(cmd, "C_FUNCTION")
    /\ Emit(write_function(arg1(chapter, cmd), arg2(cmd)))
    /\ current_function' = arg1(chapter, cmd)
    /\ UNCHANGED <<chapter, vm_mode, commands, file_idx, filename, label_count, call_count,
                   asm_file>>

\* writer.write_call(parser.arg1(), parser.arg2())
DoCall(cmd) ==
    /\ Advance(cmd, "C_CALL")
    /\ Emit(write_call(arg1(chapter, cmd), arg2(cmd), call_count))
    /\ call_count' = call_count + 1
    /\ UNCHANGED <<chapter, vm_mode, commands, file_idx, filename, label_count,
                   current_function, asm_file>>

\* writer.write_return()
DoReturn(cmd) ==
    /\ Advance(cmd, "C_RETURN")
    /\ Emit(write_return)
    /\ UNCHANGED <<chapter, vm_mode, commands, file_idx, filename, label_count, call_count,
                   current_function, asm_file>>

TranslateLabel ==
    /\ n_cmds < MaxCmds
    /\ \E cmd \in Commands("C_LABEL") : DoLabel(cmd)
    /\ UNCHANGED <<asm_vars, hack_vars>>

TranslateGoto ==
    /\ n_cmds < MaxCmds
    /\ \E cmd \in Commands("C_GOTO") : DoGoto(cmd)
    /\ UNCHANGED <<asm_vars, hack_vars>>

TranslateIf ==
    /\ n_cmds < MaxCmds
    /\ \E cmd \in Commands("C_IF") : DoIf(cmd)
    /\ UNCHANGED <<asm_vars, hack_vars>>

TranslateFunction ==
    /\ n_cmds < MaxCmds
    /\ \E cmd \in Commands("C_FUNCTION") : DoFunction(cmd)
    /\ UNCHANGED <<asm_vars, hack_vars>>

TranslateCall ==
    /\ n_cmds < MaxCmds
    /\ \E cmd \in Commands("C_CALL") : DoCall(cmd)
    /\ UNCHANGED <<asm_vars, hack_vars>>

TranslateReturn ==
    /\ n_cmds < MaxCmds
    /\ \E cmd \in Commands("C_RETURN") : DoReturn(cmd)
    /\ UNCHANGED <<asm_vars, hack_vars>>

\* WriteAsm reached after an exception too, as from a finally clause
WriteAsm_after_error ==
    /\ vm_pc \in {"in_file", "aborted"}
    /\ vm_pc' = "written"
    /\ asm_file' = [exists |-> TRUE, content |-> lines]
    /\ UNCHANGED <<chapter, vm_mode, commands, file_idx, current, n_cmds, writer_vars, vm_err>>
    /\ UNCHANGED <<asm_vars, hack_vars>>

\* main: every file translated, writer.lines is written to the .asm file
WriteAsm ==
    /\ vm_pc = "in_file"
    /\ vm_pc' = "written"
    /\ asm_file' = [exists |-> TRUE, content |-> lines]
    /\ UNCHANGED <<chapter, vm_mode, commands, file_idx, current, n_cmds, writer_vars, vm_err>>
    /\ UNCHANGED <<asm_vars, hack_vars>>

NextVM ==
    \/ WriteInit
    \/ BeginFile
    \/ TranslateArithmetic
    \/ TranslatePush
    \/ TranslatePop
    \/ TranslateLabel
    \/ TranslateGoto
    \/ TranslateIf
    \/ TranslateFunction
    \/ TranslateCall
    \/ TranslateReturn
    \/ WriteAsm

SpecVM == InitVM /\ [][NextVM]_vars

(* ------------------------------------------------------------------ *)
(* Running the emitted assembly, command by command                   *)
(* ------------------------------------------------------------------ *)
\* Data memory at the start of a run: SP = sp, the segment pointers above the
\* stack, x and y in the two lowest stack cells, every other cell distinct.
StartRam(sp, x, y) ==
    [a \in 0..RamTop |->
        IF a = 0 THEN sp
        ELSE IF a = 1 THEN 262
        ELSE IF a = 2 THEN 264
        ELSE IF a = 3 THEN 266
        ELSE IF a = 4 THEN 268
        ELSE IF a = 256 THEN x
        ELSE IF a = 257 THEN y
        ELSE 1000 + a]

\* The machine, halted at the end of the program so far, runs on through the
\* lines r.out the write operation appended, to the end of the longer program.
\* Nothing runs when the operation raised: the translator produced no program.
Execute(r) ==
    IF r.err # "none" THEN UNCHANGED hack_vars
    ELSE \E ld \in {Load(r.out, Len(lines), view)} :
         \E m \in {Run([A |-> cpu.A, D |-> cpu.D, pc |-> view.rom_addr, ram |-> ram,
                        ok |-> ld.ok],
                       ld.rom, view.rom_addr, Len(ld.rom))} :
             /\ m.ok
             /\ m.pc = ld.view.rom_addr
             /\ cpu' = [A |-> m.A, D |-> m.D]
             /\ ram' = m.ram
             /\ view' = ld.view
             /\ UNCHANGED <<pc, image, calls>>

\* push and pop commands of the memory-access runs
MemPushPool ==
    { <<<<"p","u","s","h">>, <<"c","o","n","s","t","a","n","t">>, <<"3","2","7","6","7">>>>,
      <<<<"p","u","s","h">>, <<"l","o","c","a","l">>, <<"1">>>>,
      <<<<"p","u","s","h">>, <<"a","r","g","u","m","e","n","t">>, <<"0">>>>,
      <<<<"p","u","s","h">>, <<"t","h","i","s">>, <<"0">>>>,
      <<<<"p","u","s","h">>, <<"t","h","a","t">>, <<"1">>>>,
      <<<<"p","u","s","h">>, <<"t","e","m","p">>, <<"7">>>>,
      <<<<"p","u","s","h">>, <<"p","o","i","n","t","e","r">>, <<"0">>>>,
      <<<<"p","u","s","h">>, <<"s","t","a","t","i","c">>, <<"1">>>> }

MemPopPool ==
    { <<<<"p","o","p">>, <<"l","o","c","a","l">>, <<"1">>>>,
      <<<<"p","o","p">>, <<"a","r","g","u","m","e","n","t">>, <<"0">>>>,
      <<<<"p","o","p">>, <<"t","h","i","s">>, <<"0">>>>,
      <<<<"p","o","p">>, <<"t","h","a","t">>, <<"0">>>>,
      <<<<"p","o","p">>, <<"t","e","m","p">>, <<"0">>>>,
      <<<<"p","o","p">>, <<"p","o","i","n","t","e","r">>, <<"1">>>>,
      <<<<"p","o","p">>, <<"s","t","a","t","i","c">>, <<"1">>>> }

\* A translator of chapters chs at work on the file FileNames[1] (set_file_name
\* done, no command translated yet), its output to run on a machine whose memory
\* is mem.
InitRun(chs, mem) ==
    /\ AsmIdle
    /\ chapter \in chs
    /\ commands = <<>>
    /\ vm_mode = "file"
    /\ vm_pc = "in_file"
    /\ file_idx = 1
    /\ current = <<>>
    /\ n_cmds = 0
    /\ lines = IF chapter = 8 THEN <<<<"/","/"," ","=","=","="," ">> \o FileNames[1] \o <<".","v","m"," ","=","=","=">>>> ELSE <<>>
    /\ filename = FileNames[1]
    /\ label_count = 0
    /\ call_count = 0
    /\ current_function = <<>>
    /\ vm_err = "none"
    /\ asm_file = [exists |-> FALSE, content |-> <<>>]
    /\ cpu = [A |-> 0, D |-> 0]
    /\ ram = mem
    /\ view = [symbols |-> PREDEFINED, rom_addr |-> 0, next_var_addr |-> 16]
    /\ NoImage

\* Memory-access runs start with two words on the stack. _write_push and
\* _write_pop are the same code in both translators; the runs take chapter 8's.
InitMem == \E p \in {<<14, 0>>, <<8, 3>>, <<0, 0>>} : InitRun({8}, StartRam(258, p[1], p[2]))

MemPush ==
    /\ n_cmds < MaxMemCmds
    /\ \E cmd \in MemPushPool : \E r \in {PushPopResult(cmd)} :
          DoPushPop(cmd, "C_PUSH", r) /\ Execute(r)
    /\ UNCHANGED asm_vars

MemPop ==
    /\ n_cmds < MaxMemCmds
    /\ \E cmd \in MemPopPool : \E r \in {PushPopResult(cmd)} :
          DoPushPop(cmd, "C_POP", r) /\ Execute(r)
    /\ UNCHANGED asm_vars

NextMem == MemPush \/ MemPop

SpecMem == InitMem /\ [][NextMem]_vars

\* commands of the arithmetic runs
ArithPushPool == { <<<<"p","u","s","h">>, <<"c","o","n","s","t","a","n","t">>, <<"7">>>>, <<<<"p","u","s","h">>, <<"c","o","n","s","t","a","n","t">>, <<"8">>>> }

ArithOpPool ==
    { <<<<"a","d","d">>>>, <<<<"s","u","b">>>>, <<<<"a","n","d">>>>, <<<<"o","r">>>>, <<<<"n","e","g">>>>, <<<<"n","o","t">>>>,
      <<<<"e","q">>>>, <<<<"g","t">>>>, <<<<"l","t">>>> }

\* operand pairs <<x, y>> on the stack at the start of an arithmetic run
OperandPairs ==
    { <<7, 7>>, <<8, 7>>, <<7, 8>>, <<32768, 1>>, <<32767, 65535>>, <<21845, 13107>> }

\* arithmetic runs start with an empty stack at 256 or with an operand pair on it
InitArith ==
    \/ InitRun({7, 8}, StartRam(256, 1256, 1257))
    \/ \E p \in OperandPairs : InitRun({7, 8}, StartRam(258, p[1], p[2]))

ArithPush ==
    /\ n_cmds < MaxCmds
    /\ \E cmd \in ArithPushPool : \E r \in {PushPopResult(cmd)} :
          DoPushPop(cmd, "C_PUSH", r) /\ Execute(r)
    /\ UNCHANGED asm_vars

ArithOp ==
    /\ n_cmds < MaxCmds
    /\ \E cmd \in ArithOpPool : \E r \in {ArithmeticResult(cmd)} :
          DoArithmetic(cmd, r) /\ Execute(r)
    /\ UNCHANGED asm_vars

NextArith == ArithPush \/ ArithOp

SpecArith == InitArith /\ [][NextArith]_vars

(* ------------------------------------------------------------------ *)
(* Whole programs: translated, loaded, and run command by command     *)
(* ------------------------------------------------------------------ *)
\* 'push constant c'
PushConstant(c) == <<<<"p","u","s","h">>, <<"c","o","n","s","t","a","n","t">>, Str(c)>>

\* the caller's arguments: push constant 41, push constant 42, ...
RECURSIVE PushArguments(_)
PushArguments(n) == IF n = 0 THEN <<>> ELSE Append(PushArguments(n - 1), PushConstant(40 + n))

\* top-level code that calls Foo.bar with n arguments and then loops at END
Caller(n) ==
    PushArguments(n) \o
    << <<<<"c","a","l","l">>, <<"F","o","o",".","b","a","r">>, Str(n)>>, <<<<"l","a","b","e","l">>, <<"E","N","D">>>>, <<<<"g","o","t","o">>, <<"E","N","D">>>> >>

\* function bodies; each leaves one value on top of the function's stack
BodyConstant == << PushConstant(99) >>

BodyArgument == << <<<<"p","u","s","h">>, <<"a","r","g","u","m","e","n","t">>, <<"0">>>>, PushConstant(1), <<<<"a","d","d">>>> >>

BodySegments ==
    << PushConstant(3), <<<<"p","o","p">>, <<"p","o","i","n","t","e","r">>, <<"0">>>>, PushConstant(4), <<<<"p","o","p">>, <<"p","o","i","n","t","e","r">>, <<"1">>>>,
       PushConstant(6), <<<<"p","o","p">>, <<"l","o","c","a","l">>, <<"0">>>>, PushConstant(99) >>

BodyNested(m) == PushArguments(m) \o << <<<<"c","a","l","l">>, <<"g">>, Str(m)>> >>

\* value 0, c or -c on the stack, then a branch on it around 'push constant 7'
BodyBranch(c, negate) ==
    << PushConstant(c) >> \o (IF negate THEN << <<<<"n","e","g">>>> >> ELSE <<>>) \o
    << <<<<"i","f","-","g","o","t","o">>, <<"L">>>>, PushConstant(7), <<<<"g","o","t","o">>, <<"M">>>>,
       <<<<"l","a","b","e","l">>, <<"L">>>>, PushConstant(9), <<<<"l","a","b","e","l">>, <<"M">>>> >>

\* the bodies a function of k locals called with n arguments can have
Bodies(n, k) ==
    {BodyConstant, BodyNested(0), BodyNested(1)}
    \cup (IF n >= 1 THEN {BodyArgument} ELSE {})
    \cup (IF k >= 1 THEN {BodySegments} ELSE {})
    \cup (IF n = 0 /\ k = 0 THEN {BodyBranch(c, s) : c \in 0..2, s \in BOOLEAN} ELSE {})

\* 'function name k', the body, 'return'
Function(name, k, body) ==
    << <<<<"f","u","n","c","t","i","o","n">>, name, Str(k)>> >> \o body \o << <<<<"r","e","t","u","r","n">>>> >>

\* the function g the nested bodies call: it changes THIS and returns 5
FunctionG == Function(<<"g">>, 1, << PushConstant(3), <<<<"p","o","p">>, <<"p","o","i","n","t","e","r">>, <<"0">>>>, PushConstant(5) >>)

\* the labels L and M in three scopes: top-level code that branches and calls
\* Foo.bar, which branches and calls g, which branches
ScopedPrograms ==
    {BodyBranch(c, FALSE) \o << <<<<"p","o","p">>, <<"t","e","m","p">>, <<"0">>>> >> \o Caller(0)
       \o Function(<<"F","o","o",".","b","a","r">>, 0, BodyBranch(d, FALSE) \o << <<<<"p","o","p">>, <<"t","e","m","p">>, <<"0">>>> >> \o BodyNested(0))
       \o Function(<<"g">>, 1, BodyBranch(c, TRUE)) : c \in 0..1, d \in 0..1}

\* The .vm texts of the runs: a call of Foo.bar from top-level code, and branches
\* in top-level code.
CallPrograms ==
    UNION {{Caller(n) \o Function(<<"F","o","o",".","b","a","r">>, k, body) \o FunctionG : body \in Bodies(n, k)} :
              n \in 0..MaxArgs, k \in 0..MaxLocals}
    \cup {BodyBranch(c, s) \o << <<<<"l","a","b","e","l">>, <<"E","N","D">>>>, <<<<"g","o","t","o">>, <<"E","N","D">>>> >> :
              c \in 0..2, s \in BOOLEAN}
    \cup ScopedPrograms

\* The chapter-8 translator at work on the file FileNames[1], whose text is one
\* of the programs; a machine with an empty stack at 256 waits for its output.
InitCall ==
    /\ AsmIdle
    /\ chapter = 8
    /\ commands \in CallPrograms
    /\ vm_mode = "file"
    /\ vm_pc = "in_file"
    /\ file_idx = 1
    /\ current = <<>>
    /\ n_cmds = 0
    /\ lines = <<<<"/","/"," ","=","=","="," ">> \o FileNames[1] \o <<".","v","m"," ","=","=","=">>>>
    /\ filename = FileNames[1]
    /\ label_count = 0
    /\ call_count = 0
    /\ current_function = <<>>
    /\ vm_err = "none"
    /\ asm_file = [exists |-> FALSE, content |-> <<>>]
    /\ cpu = [A |-> 0, D |-> 0]
    /\ ram = StartRam(256, 1256, 1257)
    /\ view = [symbols |-> PREDEFINED, rom_addr |-> 0, next_var_addr |-> 16]
    /\ NoImage

\* translate_vm_text's loop body on the next command of the file; the line
\* count before it marks where its fragment begins
TranslateNext ==
    /\ n_cmds < Len(commands)
    /\ \E cmd \in {commands[n_cmds + 1]} : \E ctype \in {command_type(chapter, cmd)} :
          \/ ctype = "C_ARITHMETIC" /\ \E r \in {ArithmeticResult(cmd)} : DoArithmetic(cmd, r)
          \/ ctype \in {"C_PUSH", "C_POP"} /\ \E r \in {PushPopResult(cmd)} : DoPushPop(cmd, ctype, r)
          \/ ctype = "C_LABEL" /\ DoLabel(cmd)
          \/ ctype = "C_GOTO" /\ DoGoto(cmd)
          \/ ctype = "C_IF" /\ DoIf(cmd)
          \/ ctype = "C_FUNCTION" /\ DoFunction(cmd)
          \/ ctype = "C_CALL" /\ DoCall(cmd)
          \/ ctype = "C_RETURN" /\ DoReturn(cmd)
    /\ image' = [image EXCEPT !.marks = Append(@, Len(lines))]
    /\ UNCHANGED <<asm_vars, cpu, ram, view, pc, calls>>

\* main writes the .asm file once the loop has consumed every command
WriteProgram ==
    /\ n_cmds = Len(commands)
    /\ WriteAsm

\* the lines that hold an instruction, as the assembler's passes tell them
IsInstruction(l) == strip_comment_and_ws(l) # <<>> /\ ~is_label(strip_comment_and_ws(l))

\* ROM address of the first instruction after the first k lines of ls
RomAddress(ls, k) == Cardinality({i \in 1..k : IsInstruction(ls[i])})

\* The .asm file is assembled as a whole and put in the machine's ROM; the
\* machine starts at address 0.
LoadProgram ==
    /\ vm_pc = "written"
    /\ image.rom = <<>>
    /\ \E ld \in {Load(asm_file.content, 0,
                        [symbols |-> PREDEFINED, rom_addr |-> 0, next_var_addr |-> 16])} :
          /\ ld.ok
          /\ image' = [rom |-> ld.rom, symbols |-> ld.view.symbols, marks |-> image.marks,
                       starts |-> [j \in DOMAIN image.marks |->
                                      RomAddress(asm_file.content, image.marks[j])]]
    /\ pc' = 0
    /\ UNCHANGED <<asm_vars, vm_vars, cpu, ram, view, calls>>

\* ROM addresses at which the fragment of a command begins
Boundaries == {image.starts[j] : j \in DOMAIN image.starts}

\* the command whose fragment has the instruction at ROM address p as its first
\* (the last such command: label commands emit no instruction)
CommandAt(p) ==
    commands[CHOOSE j \in DOMAIN image.starts :
                /\ image.starts[j] = p
                /\ \A i \in DOMAIN image.starts : image.starts[i] = p => i <= j]

\* the last line of the fragment of the command at p: write_call ends its
\* fragment with the line '(returnLabel)'
LastLineAt(p) ==
    LET j == CHOOSE j \in DOMAIN image.starts :
                /\ image.starts[j] = p
                /\ \A i \in DOMAIN image.starts : image.starts[i] = p => i <= j
    IN  IF j = Len(image.marks) THEN asm_file.content[Len(asm_file.content)]
        ELSE asm_file.content[image.marks[j + 1]]

\* The machine runs from m until the program counter reaches the first
\* instruction of a command's fragment; ok is lost when it leaves the program
\* or runs out of fuel.
RECURSIVE RunToBoundary(_, _, _, _)
RunToBoundary(m, rom, stops, fuel) ==
    IF ~m.ok THEN m
    ELSE IF m.pc < 0 \/ m.pc >= Len(rom) \/ fuel = 0 THEN [m EXCEPT !.ok = FALSE]
    ELSE CHOOSE done \in {IF one.ok /\ one.pc \in stops THEN one
                           ELSE RunToBoundary(one, rom, stops, fuel - 1) :
                              one \in {Step(m, rom[m.pc + 1])}} : TRUE

\* the calls under way once the command cmd has run from stack pointer ram[0]
CallsAfter(cmd, last) ==
    IF cmd[1] = <<"c","a","l","l">>
    THEN Append(calls, [S |-> ram[0], n |-> int(cmd[3]),
                        saved |-> <<ram[1], ram[2], ram[3], ram[4]>>,
                        ret |-> SubSeq(last, 2, Len(last) - 1)])
    ELSE IF cmd[1] = <<"r","e","t","u","r","n">> /\ calls # <<>>
    THEN SubSeq(calls, 1, Len(calls) - 1)
    ELSE calls

\* The machine executes the fragment of the command at the program counter.
ExecCommand ==
    /\ image.rom # <<>>
    /\ pc \in Boundaries
    /\ \E m \in {RunToBoundary([A |-> cpu.A, D |-> cpu.D, pc |-> pc, ram |-> ram, ok |-> TRUE],
                                 image.rom, Boundaries, MaxSteps)} :
          /\ m.ok
          /\ cpu' = [A |-> m.A, D |-> m.D]
          /\ ram' = m.ram
          /\ pc' = m.pc
    /\ calls' = CallsAfter(CommandAt(pc), LastLineAt(pc))
    /\ UNCHANGED <<asm_vars, vm_vars, view, image>>

NextCall == TranslateNext \/ WriteProgram \/ LoadProgram \/ ExecCommand

SpecCall == InitCall /\ [][NextCall]_vars
(* ------------------------------------------------------------------ *)
(* The three tools side by side: a run of the assembler or of a       *)
(* VM translator                                                      *)
(* ------------------------------------------------------------------ *)
InitTools == InitAsm \/ InitVM

NextTools == NextAsm \/ NextVM

SpecTools == InitTools /\ [][NextTools]_vars
(* ------------------------------------------------------------------ *)
(* Assembler: what the claims speak about                             *)
(* ------------------------------------------------------------------ *)
LineIdx == 1..Len(asm_lines)

\* the normalized text of every source line (T below is always this sequence)
RECURSIVE NormUpTo(_)
NormUpTo(n) ==
    IF n = 0 THEN <<>> ELSE Append(NormUpTo(n - 1), strip_comment_and_ws(asm_lines[n].raw))

Norm == NormUpTo(Len(asm_lines))

\* a non-blank, non-label line: one that occupies a ROM address
IsInstr(T, i) == T[i] # <<>> /\ ~(Len(T[i]) >= 3 /\ T[i][1] = "(" /\ T[i][Len(T[i])] = ")")

IsLabelLine(T, i) == T[i] # <<>> /\ ~IsInstr(T, i)

IsALine(T, i) == IsInstr(T, i) /\ T[i][1] = "@"

IsCLine(T, i) == IsInstr(T, i) /\ T[i][1] # "@"

\* number of instructions before line i = ROM address of the next instruction
InstrBefore(T, i) == Cardinality({j \in 1..(i - 1) : IsInstr(T, j)})

\* assemble() returned: the program was accepted
Accepted == asm_pc \in {"pass2", "written"}

\* the word emitted for instruction line i of an accepted program
WordOf(T, i) == machine[InstrBefore(T, i) + 1]

IsBinary(w) == \A k \in 1..Len(w) : w[k] \in {"0", "1"}

\* w is '0' followed by the 15-bit binary of n
IsAWord(w, n) == Len(w) = 16 /\ IsBinary(w) /\ w[1] = "0" /\ BinValue(w) = n

\* the name a label line binds, the token an A-instruction line carries
LabelOf(T, i) == strip(SubSeq(T[i], 2, Len(T[i]) - 1))

TokenOf(T, i) == strip(Tail(T[i]))

AllDigits(t) == t # <<>> /\ \A k \in 1..Len(t) : t[k] \in DigitChars

\* every reference @L to the label bound on line l resolves to the address of
\* the instruction that follows line l
LabelResolves(T, l) ==
    \A a \in LineIdx :
        (IsALine(T, a) /\ TokenOf(T, a) = LabelOf(T, l)) =>
            IsAWord(WordOf(T, a), InstrBefore(T, l))

\* C1 as stated: in an accepted program every A-instruction @L, for every label L
\* bound by a (L) line, also one whose name is made only of digits, is emitted as
\* '0' + the 15-bit binary of the number of instructions preceding (L).
C1_AllLabelsResolve ==
    Accepted => LET T == Norm IN
        \A l \in LineIdx : IsLabelLine(T, l) => LabelResolves(T, l)

\* C1 amended: the same for every label whose name is not made only of digits
\* (an all-digit token after @ is a decimal literal and never a label reference).
C1_NonDigitLabelsResolve ==
    Accepted => LET T == Norm IN
        \A l \in LineIdx :
            (IsLabelLine(T, l) /\ ~AllDigits(LabelOf(T, l))) => LabelResolves(T, l)

\* C1 witness: an accepted program that references a non-digit label both before
\* and after the line binding it, the label's address being nonzero.
C1_Witness ==
    /\ asm_pc = "written"
    /\ LET T == Norm IN
       \E l \in LineIdx, a1 \in LineIdx, a2 \in LineIdx :
        /\ a1 < l /\ l < a2
        /\ IsLabelLine(T, l) /\ ~AllDigits(LabelOf(T, l))
        /\ LabelOf(T, l) \notin DOMAIN PREDEFINED
        /\ IsALine(T, a1) /\ TokenOf(T, a1) = LabelOf(T, l)
        /\ IsALine(T, a2) /\ TokenOf(T, a2) = LabelOf(T, l)
        /\ InstrBefore(T, l) > 0

\* the names bound by the label lines of the program
LabelNames(T) == {LabelOf(T, l) : l \in {m \in LineIdx : IsLabelLine(T, m)}}

\* an A-instruction line whose symbol is a variable: not a literal, not
\* predefined, not bound by any label line
IsVarRef(T, i) ==
    /\ IsALine(T, i)
    /\ ~AllDigits(TokenOf(T, i))
    /\ TokenOf(T, i) \notin DOMAIN PREDEFINED
    /\ TokenOf(T, i) \notin LabelNames(T)

\* the lines on which a variable occurs for the first time
FirstUses(T) ==
    {f \in LineIdx : IsVarRef(T, f) /\
        \A g \in 1..(f - 1) : IsVarRef(T, g) => TokenOf(T, g) # TokenOf(T, f)}

\* how many distinct variables occur for the first time before the variable of line i
VarRank(T, i) ==
    LET first == CHOOSE f \in FirstUses(T) : TokenOf(T, f) = TokenOf(T, i)
    IN  Cardinality({f \in FirstUses(T) : f < first})

\* C2: in an accepted program the k-th distinct variable symbol, in order of first
\* textual occurrence, is bound to 16 + k, and every occurrence of it is emitted as
\* that address (so addresses are dense from 16 and none is handed out twice).
C2_VariablesDenseFrom16 ==
    Accepted => LET T == Norm IN
        \A i \in LineIdx :
            IsVarRef(T, i) => /\ IsAWord(WordOf(T, i), 16 + VarRank(T, i))
                              /\ TokenOf(T, i) \in DOMAIN symbols
                              /\ symbols[TokenOf(T, i)] = 16 + VarRank(T, i)

\* C2 witness: two distinct variables, the first one used again after the second.
C2_Witness ==
    /\ asm_pc = "written"
    /\ LET T == Norm IN
       \E i \in LineIdx, j \in LineIdx, k \in LineIdx :
        /\ i < j /\ j < k
        /\ IsVarRef(T, i) /\ IsVarRef(T, j) /\ IsVarRef(T, k)
        /\ TokenOf(T, i) # TokenOf(T, j) /\ TokenOf(T, k) = TokenOf(T, i)

\* The [dest=]comp[;jump] form, read off the text: the part before the first '='
\* (absent when there is no '=' or nothing but blanks before it), the part after
\* the first ';' that follows (absent likewise), and the part between.
EqAt(t) == {k \in 1..Len(t) : t[k] = "=" /\ \A m \in 1..(k - 1) : t[m] # "="}

AfterEq(t) == IF EqAt(t) = {} THEN t ELSE SubSeq(t, (CHOOSE k \in EqAt(t) : TRUE) + 1, Len(t))

SemiAt(t) == {k \in 1..Len(t) : t[k] = ";" /\ \A m \in 1..(k - 1) : t[m] # ";"}

DestField(t) == IF EqAt(t) = {} THEN <<>> ELSE strip(SubSeq(t, 1, (CHOOSE k \in EqAt(t) : TRUE) - 1))

CompField(t) ==
    IF SemiAt(AfterEq(t)) = {} THEN strip(AfterEq(t))
    ELSE strip(SubSeq(AfterEq(t), 1, (CHOOSE k \in SemiAt(AfterEq(t)) : TRUE) - 1))

JumpField(t) ==
    IF SemiAt(AfterEq(t)) = {} THEN <<>>
    ELSE strip(SubSeq(AfterEq(t), (CHOOSE k \in SemiAt(AfterEq(t)) : TRUE) + 1, Len(AfterEq(t))))

FieldsValid(t) ==
    /\ CompField(t) \in DOMAIN COMP_TABLE
    /\ DestField(t) \in DOMAIN DEST_TABLE
    /\ JumpField(t) \in DOMAIN JUMP_TABLE

FieldErrors == {"InvalidCompField", "InvalidDestField", "InvalidJumpField"}

\* the words of the specification's scenarios and of the empty-field examples
ScenarioWord(t) ==
    IF t = <<"D","=","A">> THEN <<"1","1","1","0","1","1","0","0","0","0","0","1","0","0","0","0">>
    ELSE IF t = <<"0",";","J","M","P">> THEN <<"1","1","1","0","1","0","1","0","1","0","0","0","0","1","1","1">>
    ELSE IF t \in {<<"=","D">>, <<"D",";">>} THEN <<"1","1","1","0","0","0","1","1","0","0","0","0","0","0","0","0">>
    ELSE <<>>

\* C3: in an accepted program every C-instruction has its three fields in the
\* tables and its word is 111 || comp7 || dest3 || jump3, an absent or empty dest
\* or jump encoding as 000; a run that failed with a field error failed on a
\* C-instruction whose named field is not in its table, and emitted nothing.
C3_CInstructionEncoding ==
    /\ Accepted => LET T == Norm IN
          \A i \in LineIdx : IsCLine(T, i) =>
              /\ FieldsValid(T[i])
              /\ WordOf(T, i) = <<"1","1","1">> \o COMP_TABLE[CompField(T[i])]
                                  \o DEST_TABLE[DestField(T[i])] \o JUMP_TABLE[JumpField(T[i])]
              /\ ScenarioWord(T[i]) # <<>> => WordOf(T, i) = ScenarioWord(T[i])
    /\ (asm_pc = "failed" /\ asm_err.kind \in FieldErrors) => LET T == Norm IN
          /\ IsCLine(T, err_at)
          /\ asm_err.kind = "InvalidCompField" => CompField(T[err_at]) \notin DOMAIN COMP_TABLE
          /\ asm_err.kind = "InvalidDestField" => DestField(T[err_at]) \notin DOMAIN DEST_TABLE
          /\ asm_err.kind = "InvalidJumpField" => JumpField(T[err_at]) \notin DOMAIN JUMP_TABLE
          /\ machine = <<>> /\ ~hack_file.exists

\* C3 witness: an accepted, written program holding a C-instruction with all three
\* fields and blanks around them, and one with an empty dest or jump.
C3_Witness ==
    /\ asm_pc = "written"
    /\ LET T == Norm IN
       \E i \in LineIdx, j \in LineIdx :
        /\ IsCLine(T, i) /\ DestField(T[i]) # <<>> /\ JumpField(T[i]) # <<>>
        /\ \E k \in 1..Len(T[i]) : T[i][k] \in WS
        /\ IsCLine(T, j) /\ T[j] \in {<<"=","D">>, <<"D",";">>}

\* C4: an all-digit token is emitted as '0' + the 15-bit binary of its value when
\* that is at most 32767; a run fails with ConstantOutOfRange only on an all-digit
\* token above 32767, with no word and no output file; and an all-digit name is in
\* the symbol table only if a label line put it there.
C4_DigitLiteral ==
    LET T == Norm IN
    /\ Accepted => \A i \in LineIdx : (IsALine(T, i) /\ AllDigits(TokenOf(T, i))) =>
          /\ int(TokenOf(T, i)) <= 32767
          /\ IsAWord(WordOf(T, i), int(TokenOf(T, i)))
    /\ (asm_pc = "failed" /\ asm_err.kind = "ConstantOutOfRange") =>
          /\ IsALine(T, err_at) /\ AllDigits(TokenOf(T, err_at))
          /\ int(TokenOf(T, err_at)) > 32767
          /\ machine = <<>> /\ ~hack_file.exists /\ exit_code = 2
    /\ asm_pc # "start" =>
          \A i \in LineIdx :
             (IsALine(T, i) /\ AllDigits(TokenOf(T, i)) /\ TokenOf(T, i) \in DOMAIN symbols)
                 => TokenOf(T, i) \in LabelNames(T)

\* C4 witness: an accepted program with the largest literal, and a literal whose
\* digits are also the name of a bound label with another address.
C4_Witness ==
    /\ asm_pc = "written"
    /\ LET T == Norm IN
       /\ \E i \in LineIdx : /\ IsALine(T, i) /\ AllDigits(TokenOf(T, i))
                             /\ int(TokenOf(T, i)) = 32767
       /\ \E i \in LineIdx : /\ IsALine(T, i) /\ AllDigits(TokenOf(T, i))
                             /\ TokenOf(T, i) \in DOMAIN symbols
                             /\ symbols[TokenOf(T, i)] # int(TokenOf(T, i))

\* C5: an accepted program yields exactly one word per instruction line, in source
\* order, each of 16 binary digits; an A-instruction's word starts with 0 and a
\* C-instruction's with 111; the file written holds exactly these words.
C5_OutputShape ==
    /\ Accepted => LET T == Norm IN
          /\ Len(machine) = Cardinality({i \in LineIdx : IsInstr(T, i)})
          /\ \A i \in LineIdx : IsInstr(T, i) =>
                /\ Len(WordOf(T, i)) = 16 /\ IsBinary(WordOf(T, i))
                /\ IsALine(T, i) => WordOf(T, i)[1] = "0"
                /\ IsCLine(T, i) => SubSeq(WordOf(T, i), 1, 3) = <<"1","1","1">>
    /\ asm_pc = "written" => hack_file = [exists |-> TRUE, content |-> machine]

\* C5 witness: a written program with an A-instruction resolved through a label
\* and one resolved through a fresh variable.
C5_Witness ==
    /\ asm_pc = "written"
    /\ LET T == Norm IN
       \E a \in LineIdx, v \in LineIdx :
        /\ IsALine(T, a) /\ ~AllDigits(TokenOf(T, a)) /\ TokenOf(T, a) \in LabelNames(T)
        /\ IsVarRef(T, v)

\* C6 as stated: every assembly error is reported with the 1-based number and the
\* raw text of the offending source line.
C6_ErrorsCarryLineAndRaw ==
    asm_pc = "failed" =>
        /\ asm_err.has_line /\ asm_err.line_no = err_at
        /\ asm_err.has_raw /\ asm_err.raw = asm_lines[err_at].raw

(* ------------------------------------------------------------------ *)
(* VM translators: what the claims speak about                        *)
(* ------------------------------------------------------------------ *)
\* the lines the step under way appends to the output
Emitted == SubSeq(lines', Len(lines) + 1, Len(lines'))

\* the step under way translates one more command
CommandStep == n_cmds' = n_cmds + 1

StartsWith(s, p) == Len(s) >= Len(p) /\ SubSeq(s, 1, Len(p)) = p

\* names of the '(X)' lines of a list of assembly lines
DefinedLabels(ls) ==
    {SubSeq(ls[k], 2, Len(ls[k]) - 1) :
        k \in {j \in 1..Len(ls) : Len(ls[j]) >= 3 /\ ls[j][1] = "(" /\ ls[j][Len(ls[j])] = ")"}}

\* symbols of the '@X' lines that are neither numbers nor predefined
ReferencedLabels(ls) ==
    {Tail(ls[k]) : k \in {j \in 1..Len(ls) : Len(ls[j]) >= 2 /\ ls[j][1] = "@"}}
    \ ({t \in {Tail(ls[k]) : k \in {j \in 1..Len(ls) : Len(ls[j]) >= 2 /\ ls[j][1] = "@"}} :
           AllDigits(t)} \cup DOMAIN PREDEFINED)

Comparisons == {<<<<"e","q">>>>, <<<<"g","t">>>>, <<<<"l","t">>>>}

\* the comparison's name in upper case
CompareName(op) == IF op = <<"e","q">> THEN <<"E","Q">> ELSE IF op = <<"g","t">> THEN <<"G","T">> ELSE <<"L","T">>

\* C7: in both translators, translating eq, gt or lt succeeds, the emitted
\* fragment defines and references exactly <OP>_TRUE_<n> and <OP>_END_<n>, n the
\* comparison counter before the command, and the counter is n + 1 afterwards.
C7_CompareLabels ==
    [][ (CommandStep /\ current' \in Comparisons) =>
            LET t == CompareName(current'[1]) \o <<"_","T","R","U","E","_">> \o Str(label_count)
                e == CompareName(current'[1]) \o <<"_","E","N","D","_">> \o Str(label_count)
            IN  /\ vm_err' = "none"
                /\ vm_pc' = "in_file"
                /\ label_count' = label_count + 1
                /\ DefinedLabels(Emitted) = {t, e}
                /\ ReferencedLabels(Emitted) = {t, e} ]_vars

\* indexes of the '(X)' lines of the output so far
LabelLines == {k \in 1..Len(lines) : Len(lines[k]) >= 3 /\ lines[k][1] = "("
                                      /\ lines[k][Len(lines[k])] = ")"}

\* a '(X)' line the writer generated for a comparison or a call site: write_label
\* and write_function put their label right after their comment line
GeneratedLabel(k) ==
    ~(k > 1 /\ (StartsWith(lines[k - 1], <<"/","/"," ","l","a","b","e","l"," ">>) \/ StartsWith(lines[k - 1], <<"/","/"," ","f","u","n","c","t","i","o","n"," ">>)))

\* C8: in a chapter-8 run no '(X)' line generated for a comparison or call site
\* equals any other '(X)' line of the output (generated, function or user label).
C8_NoLabelCollision ==
    chapter = 8 =>
        \A k \in LabelLines : GeneratedLabel(k) =>
            \A j \in LabelLines \ {k} : lines[j] # lines[k]

(* ------------------------------------------------------------------ *)
(* Push and pop on the machine                                        *)
(* ------------------------------------------------------------------ *)
\* the word at address a, -1 where a is no cell of the memory
Cell(mem, a) == IF a \in DOMAIN mem THEN mem[a] ELSE -1

Indirect(seg) == seg \in {<<"l","o","c","a","l">>, <<"a","r","g","u","m","e","n","t">>, <<"t","h","i","s">>, <<"t","h","a","t">>}

\* where the base pointer of an indirect segment lives
PointerCell(seg) ==
    IF seg = <<"l","o","c","a","l">> THEN 1 ELSE IF seg = <<"a","r","g","u","m","e","n","t">> THEN 2 ELSE IF seg = <<"t","h","i","s">> THEN 3 ELSE 4

\* the address the loaded program gives the static variable <file>.<i>
StaticCell(i) == view'.symbols[filename \o <<".">> \o Str(i)]

\* the memory cell 'seg i' names before the step (no cell for constant)
SegmentCell(seg, i) ==
    IF Indirect(seg) THEN ram[PointerCell(seg)] + i
    ELSE IF seg = <<"t","e","m","p">> THEN 5 + i
    ELSE IF seg = <<"p","o","i","n","t","e","r">> THEN 3 + i
    ELSE IF seg = <<"s","t","a","t","i","c">> THEN StaticCell(i)
    ELSE -1

\* what 'push seg i' is to push
SourceValue(seg, i) == IF seg = <<"c","o","n","s","t","a","n","t">> THEN i ELSE Cell(ram, SegmentCell(seg, i))

PushStep == CommandStep /\ current'[1] = <<"p","u","s","h">>

PopStep == CommandStep /\ current'[1] = <<"p","o","p">>

\* after 'push seg i': RAM[old SP] holds the source value and SP = old SP + 1
PushEffect ==
    /\ Cell(ram', ram[0]) = SourceValue(current'[2], int(current'[3]))
    /\ ram'[0] = ram[0] + 1

\* after 'pop seg i': the destination holds RAM[old SP - 1], SP = old SP - 1, and
\* a pop to local/argument/this/that leaves LCL, ARG, THIS and THAT as they were
PopEffect ==
    /\ Cell(ram', SegmentCell(current'[2], int(current'[3]))) = Cell(ram, ram[0] - 1)
    /\ ram'[0] = ram[0] - 1
    /\ Indirect(current'[2]) => \A p \in 1..4 : ram'[p] = ram[p]

\* C9 as stated: executing the assembly of one push or pop has the push effect
\* or the pop effect, whatever the state of the machine.
C9_PushPopEffect ==
    [][ (PushStep => PushEffect) /\ (PopStep => PopEffect) ]_vars

\* the stack pointer points into the stack area, RAM[256..2047]
InStackArea == ram[0] \in 256..2047

\* the constant fits an A-instruction, or the cell 'seg i' names is a cell of the memory
NamesCell ==
    IF current'[2] = <<"c","o","n","s","t","a","n","t">> THEN int(current'[3]) <= 32767
    ELSE SegmentCell(current'[2], int(current'[3])) \in DOMAIN ram

\* a pop to local/argument/this/that whose destination is one of RAM[0..4]
\* (SP, LCL, ARG, THIS, THAT)
PopOntoPointers == Indirect(current'[2]) /\ SegmentCell(current'[2], int(current'[3])) \in 0..4

\* C9 amended: with the stack pointer in the stack area, a constant of at most
\* 32767 and the named cell a RAM cell, a push has the push effect, and a pop
\* has the pop effect unless its local/argument/this/that destination is one of
\* RAM[0..4].
C9_PushPopEffectInStack ==
    [][ /\ (PushStep /\ InStackArea /\ NamesCell) => PushEffect
        /\ (PopStep /\ InStackArea /\ NamesCell /\ ~PopOntoPointers) => PopEffect ]_vars

\* 32767 was pushed and then popped to local 1: it sits at LCL + 1 = 263, the
\* stack is back at 258 and LCL is still 262
C9_Witness ==
    /\ n_cmds = 2
    /\ current = <<<<"p","o","p">>, <<"l","o","c","a","l">>, <<"1">>>>
    /\ vm_err = "none"
    /\ ram[0] = 258
    /\ ram[1] = 262
    /\ ram[263] = 32767
    /\ ram[258] = 32767

(* ------------------------------------------------------------------ *)
(* Arithmetic and logic on the machine                                *)
(* ------------------------------------------------------------------ *)
BinaryOps == {<<<<"a","d","d">>>>, <<<<"s","u","b">>>>, <<<<"a","n","d">>>>, <<<<"o","r">>>>}

UnaryOps == {<<<<"n","e","g">>>>, <<<<"n","o","t">>>>}

\* the operands before the step: x below the top of the stack, y on top
OperandX == Cell(ram, ram[0] - 2)

OperandY == Cell(ram, ram[0] - 1)

\* the 16-bit difference x - y
Difference == Word(OperandX + 65536 - OperandY)

\* the word the command op is to leave
Expected(op) ==
    IF op = <<"a","d","d">> THEN Word(OperandX + OperandY)
    ELSE IF op = <<"s","u","b">> THEN Difference
    ELSE IF op = <<"a","n","d">> THEN BitAnd(OperandX, OperandY)
    ELSE IF op = <<"o","r">> THEN BitOr(OperandX, OperandY)
    ELSE IF op = <<"n","e","g">> THEN Word(65536 - OperandY)
    ELSE IF op = <<"n","o","t">> THEN 65535 - OperandY
    ELSE IF op = <<"e","q">> THEN (IF Difference = 0 THEN 65535 ELSE 0)
    ELSE IF op = <<"g","t">> THEN (IF Difference > 0 /\ Difference < 32768 THEN 65535 ELSE 0)
    ELSE (IF Difference >= 32768 THEN 65535 ELSE 0)

\* a command with two operands on a stack that starts at 256
TwoOperandStep == CommandStep /\ current' \in BinaryOps \cup Comparisons /\ ram[0] >= 258

\* a command with one operand on the stack
OneOperandStep == CommandStep /\ current' \in UnaryOps /\ ram[0] >= 257

\* the result replaces x and the stack shrinks by one
TwoOperandEffect ==
    /\ Cell(ram', ram[0] - 2) = Expected(current'[1])
    /\ ram'[0] = ram[0] - 1

\* the result replaces y and the stack keeps its size
OneOperandEffect ==
    /\ Cell(ram', ram[0] - 1) = Expected(current'[1])
    /\ ram'[0] = ram[0]

\* the command comments of the output so far, the file banner left out
CommandComments ==
    SelectSeq(lines, LAMBDA l : StartsWith(l, <<"/","/"," ">>) /\ ~StartsWith(l, <<"/","/"," ","=","=","=">>))

\* 'push constant 7; push constant 8; add' has been translated and run
SevenPlusEight ==
    CommandComments = <<<<"/","/"," ","p","u","s","h"," ","c","o","n","s","t","a","n","t"," ","7">>, <<"/","/"," ","p","u","s","h"," ","c","o","n","s","t","a","n","t"," ","8">>, <<"/","/"," ","a","d","d">>>>

\* C10: in both translators, executing the assembly of add, sub, and, or leaves
\* x+y, x-y, x&y, x|y (mod 2^16) at RAM[old SP - 2] with SP one less; neg and not
\* replace the top by -y and !y with SP unchanged; eq, gt, lt leave 0xFFFF when
\* the 16-bit difference x-y is zero, positive, negative, else 0, with SP one
\* less; and 'push constant 7; push constant 8; add' from SP = 256 ends with
\* RAM[256] = 15 and SP = 257.
C10_ArithmeticEffect ==
    /\ [][ /\ TwoOperandStep => TwoOperandEffect
           /\ OneOperandStep => OneOperandEffect ]_vars
    /\ (ram[0] = 256 => [](SevenPlusEight => ram[256] = 15 /\ ram[0] = 257))

(* ------------------------------------------------------------------ *)
(* Calls, functions and returns on the machine                        *)
(* ------------------------------------------------------------------ *)
\* the machine is about to execute the fragment of a command named name
ExecOf(name) == image.rom # <<>> /\ pc \in Boundaries /\ CommandAt(pc)[1] = name

\* the innermost call under way
InnerCall == calls[Len(calls)]

\* the top-level code at its END loop
Halted == image.rom # <<>> /\ <<"E","N","D">> \in DOMAIN image.symbols /\ pc = image.symbols[<<"E","N","D">>]

\* 'call Foo.bar 1' on the argument 41, Foo.bar being 'function Foo.bar 2; push
\* argument 0; push constant 1; add; return'
PlusOneProgram == Caller(1) \o Function(<<"F","o","o",".","b","a","r">>, 2, BodyArgument) \o FunctionG

\* C11: executing 'return' for a call made with n arguments from stack pointer S
\* (arguments included) resumes at that call's return label, stores the return
\* value at RAM[S - n], sets SP = S - n + 1 and gives LCL, ARG, THIS, THAT the
\* values they had just before the call; calling Foo.bar on 41 leaves 42 in the
\* slot that held 41 and SP one above it.
C11_ReturnRestoresCaller ==
    /\ [][ (ExecOf(<<"r","e","t","u","r","n">>) /\ calls # <<>>) =>
              /\ pc' = image.symbols[InnerCall.ret]
              /\ ram'[InnerCall.S - InnerCall.n] = ram[ram[0] - 1]
              /\ ram'[0] = InnerCall.S - InnerCall.n + 1
              /\ <<ram'[1], ram'[2], ram'[3], ram'[4]>> = InnerCall.saved ]_vars
    /\ [](commands = PlusOneProgram /\ Halted => ram[256] = 42 /\ ram[0] = 257)

\* Foo.bar, called with no argument, has called g, which set THIS to 3 and
\* returned 5; Foo.bar has returned it: 5 sits where the return address of the
\* outer call was, and THIS is what it was before the calls
C11_Witness ==
    /\ commands = Caller(0) \o Function(<<"F","o","o",".","b","a","r">>, 0, BodyNested(0)) \o FunctionG
    /\ Halted
    /\ calls = <<>>
    /\ ram[256] = 5
    /\ ram[0] = 257
    /\ ram[3] = 266

(* ------------------------------------------------------------------ *)
(* The bootstrap                                                      *)
(* ------------------------------------------------------------------ *)
\* the four instructions that set SP to 256
SetSP256 == <<<<"@","2","5","6">>, <<"D","=","A">>, <<"@","S","P">>, <<"M","=","D">>>>

\* where in the output SP is set to 256
SetSPAt == {k \in 1..Len(lines) : k + 3 <= Len(lines) /\ SubSeq(lines, k, k + 3) = SetSP256}

\* where in the output Sys.init is jumped to
SysInitAt == {k \in 1..Len(lines) : lines[k] = <<"@","S","y","s",".","i","n","i","t">>}

\* the '// === name.vm ===' lines, the first line main produces for a file
BannerAt == {k \in 1..Len(lines) : StartsWith(lines[k], <<"/","/"," ","=","=","=">>)}

\* the comment line the writers put before the code of a command
RECURSIVE JoinTokens(_)
JoinTokens(cmd) ==
    IF Len(cmd) = 1 THEN cmd[1]
    ELSE JoinTokens(SubSeq(cmd, 1, Len(cmd) - 1)) \o <<" ">> \o cmd[Len(cmd)]

CommentOf(cmd) == <<"/","/"," ">> \o JoinTokens(cmd)

\* the bootstrap: a comment, SP := 256, the code of 'call Sys.init 0' for a
\* fresh writer
BootstrapCode ==
    <<<<"/","/"," ","b","o","o","t","s","t","r","a","p",":"," ","S","P","=","2","5","6",";"," ","c","a","l","l"," ","S","y","s",".","i","n","i","t">>>> \o SetSP256 \o write_call(<<"S","y","s",".","i","n","i","t">>, 0, 0).out

\* C12: once the chapter-8 driver is past its start, a directory run's output
\* begins with the bootstrap, holds it once and has every file's lines after
\* it; a single-file run's output holds no bootstrap and begins with the file's
\* banner comment followed by the translation of the first command.
C12_BootstrapOnceInDirectoryMode ==
    (chapter = 8 /\ vm_pc \in {"between", "in_file", "written", "aborted"}) =>
        IF vm_mode = "dir"
        THEN /\ Len(lines) >= Len(BootstrapCode)
             /\ SubSeq(lines, 1, Len(BootstrapCode)) = BootstrapCode
             /\ SetSPAt = {2}
             /\ Cardinality(SysInitAt) = 1
             /\ \A k \in BannerAt : k > Len(BootstrapCode)
        ELSE /\ SetSPAt = {}
             /\ SysInitAt = {}
             /\ BannerAt = {1}
             /\ n_cmds = 1 => lines[2] = CommentOf(current)

\* a directory run has begun both files and translated a command: the bootstrap
\* is there once, before both banners
C12_Witness ==
    /\ chapter = 8
    /\ vm_mode = "dir"
    /\ Cardinality(BannerAt) = 2
    /\ n_cmds >= 1
    /\ SetSPAt = {2}
    /\ vm_pc = "written"

(* ------------------------------------------------------------------ *)
(* Invalid commands                                                   *)
(* ------------------------------------------------------------------ *)
KnownSegments ==
    {<<"a","r","g","u","m","e","n","t">>, <<"l","o","c","a","l">>, <<"t","h","i","s">>, <<"t","h","a","t">>, <<"c","o","n","s","t","a","n","t">>, <<"s","t","a","t","i","c">>, <<"t","e","m","p">>, <<"p","o","i","n","t","e","r">>}

ArithmeticNames == {<<"a","d","d">>, <<"s","u","b">>, <<"n","e","g">>, <<"e","q">>, <<"g","t">>, <<"l","t">>, <<"a","n","d">>, <<"o","r">>, <<"n","o","t">>}

\* the first tokens the parser of the chapter at work knows as commands of
\* their own
ReservedWords ==
    IF chapter = 7 THEN {<<"p","u","s","h">>, <<"p","o","p">>}
    ELSE {<<"p","u","s","h">>, <<"p","o","p">>, <<"l","a","b","e","l">>, <<"g","o","t","o">>, <<"i","f","-","g","o","t","o">>, <<"f","u","n","c","t","i","o","n">>, <<"c","a","l","l">>, <<"r","e","t","u","r","n">>}

MemoryCommand == current'[1] \in {<<"p","u","s","h">>, <<"p","o","p">>}

\* the step ended the run with the exception err
AbortedWith(err) == vm_err' = err /\ vm_pc' = "aborted"

\* C13: a push or pop on pointer with an index other than 0 or 1 fails with
\* InvalidPointerIndex, one on an unknown segment with UnknownSegment, 'pop
\* constant i' fails, a command that is neither reserved nor an arithmetic name
\* fails with UnknownArithmeticOp; each aborts the run.
C13_InvalidCommandsRejected ==
    [][ CommandStep =>
          /\ (MemoryCommand /\ current'[2] = <<"p","o","i","n","t","e","r">> /\ int(current'[3]) \notin {0, 1})
                => AbortedWith("InvalidPointerIndex")
          /\ (MemoryCommand /\ current'[2] \notin KnownSegments)
                => AbortedWith("UnknownSegment")
          /\ (current'[1] = <<"p","o","p">> /\ current'[2] = <<"c","o","n","s","t","a","n","t">>)
                => (vm_err' # "none" /\ vm_pc' = "aborted")
          /\ (current'[1] \notin ReservedWords \cup ArithmeticNames)
                => AbortedWith("UnknownArithmeticOp") ]_vars

\* 'pop pointer 2' has ended a chapter-8 run
C13_Witness ==
    /\ chapter = 8
    /\ current = <<<<"p","o","p">>, <<"p","o","i","n","t","e","r">>, <<"2">>>>
    /\ vm_err = "InvalidPointerIndex"
    /\ vm_pc = "aborted"
    /\ ~asm_file.exists

(* ------------------------------------------------------------------ *)
(* Output files                                                       *)
(* ------------------------------------------------------------------ *)
NoFile == [exists |-> FALSE, content |-> <<>>]

\* C14: when an assembly error or a translation error has ended a run, no output
\* file has been created: the .hack file and the .asm file exist only after a
\* run without error.
C14_NoOutputOnError ==
    /\ asm_err # NoError => hack_file = NoFile
    /\ asm_pc = "failed" => hack_file = NoFile
    /\ hack_file.exists => (asm_pc = "written" /\ asm_err = NoError)
    /\ vm_err # "none" => asm_file = NoFile
    /\ vm_pc = "aborted" => asm_file = NoFile
    /\ asm_file.exists => (vm_pc = "written" /\ vm_err = "none")

\* a directory run translated a command of its first file and failed in the
\* second: no .asm file
C14_Witness ==
    /\ vm_mode = "dir"
    /\ file_idx = 2
    /\ n_cmds >= 2
    /\ vm_pc = "aborted"
    /\ vm_err # "none"
    /\ asm_file = NoFile

(* ------------------------------------------------------------------ *)
(* Assembler: the symbol table's bindings                             *)
(* ------------------------------------------------------------------ *)
\* line i is a label line pass 1 accepts the syntax of
ValidLabel(T, i) ==
    /\ IsLabelLine(T, i)
    /\ LabelOf(T, i) # <<>>
    /\ \A k \in 1..Len(LabelOf(T, i)) : LabelOf(T, i)[k] \notin WS

BadLabel(T, i) == IsLabelLine(T, i) /\ ~ValidLabel(T, i)

\* line i binds a name that a predefined symbol or an earlier label line binds
\* to another ROM address
Redefines(T, i) ==
    /\ ValidLabel(T, i)
    /\ IF LabelOf(T, i) \in DOMAIN PREDEFINED
       THEN PREDEFINED[LabelOf(T, i)] # InstrBefore(T, i)
       ELSE \E j \in 1..(i - 1) :
               /\ ValidLabel(T, j)
               /\ LabelOf(T, j) = LabelOf(T, i)
               /\ InstrBefore(T, j) # InstrBefore(T, i)

\* the lines at which pass 1 stops
Pass1Stops(T) == {i \in LineIdx : BadLabel(T, i) \/ Redefines(T, i)}

FirstStop(T) == CHOOSE i \in Pass1Stops(T) : \A j \in Pass1Stops(T) : i <= j

\* a step of the run keeps every binding the table holds
BindingsKept ==
    \A n \in DOMAIN symbols : n \in DOMAIN symbols' /\ symbols'[n] = symbols[n]

\* pass 1 ends with LabelRedefined exactly at the first line that binds a bound
\* name to another address
RedefinitionFails ==
    asm_pc # "start" =>
        LET T == Norm IN
        /\ (asm_pc = "failed" /\ asm_err.kind = "LabelRedefined") <=>
               (Pass1Stops(T) # {} /\ Redefines(T, FirstStop(T)))
        /\ (asm_pc = "failed" /\ asm_err.kind = "LabelRedefined") => err_at = FirstStop(T)

\* after pass 1 the table holds the predefined symbols and the labels, each
\* predefined symbol with its seeded value and each label with its address
TableAfterPass1 ==
    asm_pc \in {"pass1", "pass2", "written"} =>
        LET T == Norm IN
        /\ \A n \in DOMAIN PREDEFINED : n \in DOMAIN symbols /\ symbols[n] = PREDEFINED[n]
        /\ \A l \in LineIdx : IsLabelLine(T, l) =>
               (LabelOf(T, l) \in DOMAIN symbols /\ symbols[LabelOf(T, l)] = InstrBefore(T, l))
        /\ asm_pc = "pass1" => DOMAIN symbols = DOMAIN PREDEFINED \cup LabelNames(T)

\* C15: no step of the assembler changes or removes a binding of the symbol
\* table; a label line whose name is bound to another address ends pass 1 with
\* LabelRedefined, one bound to the same address adds nothing; after pass 1 and
\* after an accepted program every predefined symbol has its seeded value and
\* every label the address pass 1 gave it.
C15_BindingsNeverChange ==
    /\ [][BindingsKept]_vars
    /\ [](RedefinitionFails /\ TableAfterPass1)

\* an accepted program with a label line naming a predefined symbol at that
\* symbol's own address, another label, and a variable bound by pass 2
C15_Witness ==
    /\ asm_pc = "written"
    /\ LET T == Norm IN
       /\ \E l \in LineIdx : IsLabelLine(T, l) /\ LabelOf(T, l) \in DOMAIN PREDEFINED
                              /\ InstrBefore(T, l) > 0
       /\ \E n \in DOMAIN symbols : n \notin DOMAIN PREDEFINED \cup LabelNames(T)

(* ------------------------------------------------------------------ *)
(* call and function                                                  *)
(* ------------------------------------------------------------------ *)
\* the step under way translates the next command of the program, named name
TranslationOf(name) ==
    /\ n_cmds < Len(commands)
    /\ commands[n_cmds + 1][1] = name
    /\ n_cmds' = n_cmds + 1

\* the return label of a call of f made when the call counter is c
ReturnLabelOf(f, c) == f \o <<"$","r","e","t",".">> \o Str(c)

\* the label a '(label)' line defines
Defines(line) == SubSeq(line, 2, Len(line) - 1)

\* the fragment of a call begins by loading the return label named by the
\* counter and ends with the jump to f and, right after it, that label's definition
CallFragment(cmd, c) ==
    LET e == Emitted
        r == ReturnLabelOf(cmd[2], c)
    IN  /\ Len(e) >= 5
        /\ e[2] = <<"@">> \o r
        /\ e[3] = <<"D","=","A">>
        /\ SubSeq(e, Len(e) - 2, Len(e)) = << <<"@">> \o cmd[2], <<"0",";","J","M","P">>, <<"(">> \o r \o <<")">> >>
        /\ call_count' = c + 1

\* what executing the fragment of 'call f n' from stack pointer S leaves
CallEffect(cmd) ==
    LET S == ram[0]
        n == int(cmd[3])
    IN  /\ ram'[S] = image.symbols[Defines(LastLineAt(pc))]
        /\ <<ram'[S + 1], ram'[S + 2], ram'[S + 3], ram'[S + 4]>> = <<ram[1], ram[2], ram[3], ram[4]>>
        /\ ram'[2] = S - n
        /\ ram'[1] = S + 5
        /\ ram'[0] = S + 5
        /\ pc' = image.symbols[cmd[2]]

\* what executing the fragment of 'function f k' leaves
FunctionEffect(cmd) ==
    LET k == int(cmd[3])
    IN  /\ \A i \in 0..(k - 1) : ram'[ram[1] + i] = 0
        /\ ram'[0] = ram[1] + k
        /\ ram'[1] = ram[1]

\* C16: the code of 'call f n' loads the return label f$ret.<c>, c the call
\* counter before the call, which is then c + 1, and defines it right after the
\* jump to f; executed from stack pointer S it leaves that label's address in
\* RAM[S], the former LCL, ARG, THIS, THAT in RAM[S+1..S+4], ARG = S - n,
\* LCL = SP = S + 5 and control at f. 'function f k' sets the writer's current
\* function to f; executed after the call it zeroes RAM[LCL..LCL+k-1] and sets
\* SP = LCL + k.
C16_CallAndFunction ==
    /\ [][TranslationOf(<<"c","a","l","l">>) => CallFragment(commands[n_cmds + 1], call_count)]_vars
    /\ [][TranslationOf(<<"f","u","n","c","t","i","o","n">>) => current_function' = commands[n_cmds + 1][2]]_vars
    /\ [][ExecOf(<<"c","a","l","l">>) => CallEffect(CommandAt(pc))]_vars
    /\ [][ExecOf(<<"f","u","n","c","t","i","o","n">>) => FunctionEffect(CommandAt(pc))]_vars

\* Foo.bar, called with two arguments, has initialized its two local variables
C16_Witness ==
    /\ image.rom # <<>>
    /\ Len(calls) = 1
    /\ InnerCall.n = 2
    /\ \E j \in 1..(Len(commands) - 1) :
          /\ commands[j][1] = <<"f","u","n","c","t","i","o","n">>
          /\ commands[j][3] = <<"2">>
          /\ pc = image.starts[j + 1]
    /\ ram[2] = InnerCall.S - 2
    /\ ram[1] = InnerCall.S + 5
    /\ ram[0] = InnerCall.S + 7
    /\ ram[InnerCall.S] = image.symbols[InnerCall.ret]
    /\ ram[InnerCall.S + 5] = 0
    /\ ram[InnerCall.S + 6] = 0

(* ------------------------------------------------------------------ *)
(* The writer's counters                                              *)
(* ------------------------------------------------------------------ *)
\* the step under way translated one more command without an exception
Translated == CommandStep /\ vm_err' = "none"

\* the step under way is main's call of write_init
BootstrapStep == vm_pc = "main" /\ vm_pc' = "between"

\* where the line l stands in the output
LinesAt(l) == {k \in 1..Len(lines) : lines[k] = l}

\* C17: no step of a translator run lowers the comparison counter or the call
\* counter; a comparison translated without error raises the comparison counter
\* by one, a translated call and the bootstrap raise the call counter by one, and
\* no other step, a change of file included, changes either.
C17_CountersMonotonic ==
    [][ /\ label_count' >= label_count
        /\ call_count' >= call_count
        /\ (Translated /\ <<current'[1]>> \in Comparisons) => label_count' = label_count + 1
        /\ label_count' # label_count => (Translated /\ <<current'[1]>> \in Comparisons)
        /\ (Translated /\ chapter = 8 /\ current'[1] = <<"c","a","l","l">>) => call_count' = call_count + 1
        /\ BootstrapStep => call_count' = call_count + 1
        /\ call_count' # call_count =>
               /\ call_count' = call_count + 1
               /\ BootstrapStep \/ (Translated /\ current'[1] = <<"c","a","l","l">>) ]_vars

\* a directory run: the bootstrap, a call in the first file and a call in the
\* second file got the return labels 0, 1 and 2
C17_Witness ==
    /\ chapter = 8
    /\ vm_mode = "dir"
    /\ file_idx = 2
    /\ call_count = 3
    /\ \E a \in LinesAt(<<"(","S","y","s",".","i","n","i","t","$","r","e","t",".","0",")">>), b \in LinesAt(<<"(","f","$","r","e","t",".","1",")">>),
          f \in LinesAt(<<"/","/"," ","=","=","="," ">> \o FileNames[2] \o <<".","v","m"," ","=","=","=">>), c \in LinesAt(<<"(","f","$","r","e","t",".","2",")">>) :
          a < b /\ b < f /\ f < c

(* ------------------------------------------------------------------ *)
(* Label scoping                                                      *)
(* ------------------------------------------------------------------ *)
BranchingNames == {<<"l","a","b","e","l">>, <<"g","o","t","o">>, <<"i","f","-","g","o","t","o">>}

\* the commands translated so far that name a label
Branching == {j \in 1..n_cmds : commands[j][1] \in BranchingNames}

\* the function commands that precede command j in the text
FunctionsBefore(j) == {i \in 1..(j - 1) : commands[i][1] = <<"f","u","n","c","t","i","o","n">>}

\* the function in whose body command j stands ("" at top level)
ScopeOf(j) ==
    IF FunctionsBefore(j) = {} THEN <<>>
    ELSE commands[CHOOSE i \in FunctionsBefore(j) : \A k \in FunctionsBefore(j) : k <= i][2]

\* the assembly name the fragment of command j carries: '(name)' on the second
\* line of a label, '@name' on the second line of a goto and on the fifth of an
\* if-goto
NameIn(j) ==
    LET first == image.marks[j]
    IN  IF commands[j][1] = <<"l","a","b","e","l">> THEN Defines(lines[first + 2])
        ELSE IF commands[j][1] = <<"g","o","t","o">> THEN Tail(lines[first + 2])
        ELSE Tail(lines[first + 5])

\* C18: in the chapter-8 writer the name emitted for 'label L', 'goto L' and
\* 'if-goto L' is f$L after a 'function f' command and L before any, and
\* current_function is that f ("" before any function); the same L defined in
\* two scopes gives two names, and a jump to L carries the name of a definition
\* of L exactly when both stand in the same scope.
C18_LabelScoping ==
    /\ current_function = ScopeOf(n_cmds + 1)
    /\ \A j \in Branching :
          NameIn(j) = IF ScopeOf(j) = <<>> THEN commands[j][2]
                      ELSE ScopeOf(j) \o <<"$">> \o commands[j][2]
    /\ \A i \in Branching, j \in Branching :
          (commands[i][1] = <<"l","a","b","e","l">> /\ commands[j][1] = <<"l","a","b","e","l">>
             /\ commands[i][2] = commands[j][2] /\ ScopeOf(i) # ScopeOf(j))
          => NameIn(i) # NameIn(j)
    /\ \A i \in Branching, j \in Branching :
          (commands[i][1] # <<"l","a","b","e","l">> /\ commands[j][1] = <<"l","a","b","e","l">>
             /\ commands[i][2] = commands[j][2])
          => (NameIn(i) = NameIn(j) <=> ScopeOf(i) = ScopeOf(j))

\* the label L is defined at top level, in Foo.bar and in g, and jumped to in
\* each of them: L, Foo.bar$L and g$L are in the output
C18_Witness ==
    /\ commands \in ScopedPrograms
    /\ n_cmds = Len(commands)
    /\ \A name \in {<<"L">>, <<"F","o","o",".","b","a","r","$","L">>, <<"g","$","L">>} :
          /\ LinesAt(<<"(">> \o name \o <<")">>) # {}
          /\ \E k \in LinesAt(<<"@">> \o name) : lines[k + 1] = <<"D",";","J","N","E">>
    /\ \A name \in {<<"M">>, <<"F","o","o",".","b","a","r","$","M">>, <<"g","$","M">>} :
          /\ LinesAt(<<"(">> \o name \o <<")">>) # {}
          /\ \E k \in LinesAt(<<"@">> \o name) : lines[k + 1] = <<"0",";","J","M","P">>

(* ------------------------------------------------------------------ *)
(* goto and if-goto on the machine                                    *)
(* ------------------------------------------------------------------ *)
\* the place in the text of the command whose fragment begins at ROM address p
IndexAt(p) ==
    CHOOSE j \in DOMAIN image.starts :
        /\ image.starts[j] = p
        /\ \A i \in DOMAIN image.starts : image.starts[i] = p => i <= j

\* ROM address of the scoped label the command at p names
TargetOf(p) ==
    LET j == IndexAt(p)
    IN  image.symbols[IF ScopeOf(j) = <<>> THEN commands[j][2]
                      ELSE ScopeOf(j) \o <<"$">> \o commands[j][2]]

\* the step under way changes no cell of the data memory but SP
OnlySPChanges == \A a \in DOMAIN ram : a # 0 => ram'[a] = ram[a]

\* C19: executing the code of 'if-goto L' lowers SP by one and changes no other
\* cell of the memory; control passes to the scoped label of L when the value
\* popped is not 0 and to the instruction after the five of the fragment when it
\* is 0. Executing the code of 'goto L' passes control to the scoped label and
\* changes no cell.
C19_BranchEffect ==
    /\ [][ExecOf(<<"i","f","-","g","o","t","o">>) =>
              /\ ram'[0] = ram[0] - 1
              /\ OnlySPChanges
              /\ pc' = IF ram[ram[0] - 1] # 0 THEN TargetOf(pc) ELSE pc + 5]_vars
    /\ [][ExecOf(<<"g","o","t","o">>) => (pc' = TargetOf(pc) /\ ram' = ram)]_vars

\* top-level code branched on 1, Foo.bar did not branch on 0 and left 7 in
\* temp 0, g branched on -1 and returned 9
C19_Witness ==
    /\ commands \in ScopedPrograms
    /\ commands[1] = PushConstant(1)
    /\ Halted
    /\ calls = <<>>
    /\ ram[5] = 7
    /\ ram[256] = 9
    /\ ram[0] = 257

(* ------------------------------------------------------------------ *)
(* The translators' output as input of the assembler                  *)
(* ------------------------------------------------------------------ *)
\* what pass 2 of the assembler does with line k of the output
AssembledLine(k) == pass2_line(SourceLines(lines)[k], PREDEFINED, 16)

\* the lines of the output that are instructions
OutputInstructions == {k \in 1..Len(lines) : IsInstruction(lines[k])}

\* C20: every instruction line the code writers emit is accepted by the
\* assembler: an A-instruction is '@' and a literal or symbol, the comp, dest and
\* jump fields of a C-instruction are in COMP_TABLE, DEST_TABLE and JUMP_TABLE,
\* and pass 2 raises none of InvalidCompField, InvalidDestField, InvalidJumpField.
C20_OutputAssembles ==
    \A k \in OutputInstructions :
        /\ IF lines[k][1] = "@" THEN Len(lines[k]) > 1 ELSE FieldsValid(lines[k])
        /\ AssembledLine(k).err.kind \notin FieldErrors

====
